---- MODULE Spec2Model ----
(***************************************************************************)
(* Work-log synchronisation engine: the store adapter (upsertWorklogs),    *)
(* the remote pagination drivers, the create-work-log entry point and the  *)
(* suggestion engine, as state machines translated from the TypeScript.    *)
(***************************************************************************)
EXTENDS Integers, Sequences, FiniteSets, TLC

(***************************************************************************)
(* Bounds of the model.                                                    *)
(***************************************************************************)
\* longest small batch handed to upsertWorklogs
MaxBatch == 2
\* most items the remote puts on one page, and the largest page size it reports
MaxPage == 2
\* largest total the remote reports
MaxTotal == 3
\* largest configured JIRA_MAX_ISSUES
MaxIssuesCfg == 3
\* most work logs the create entry point is followed to on the remote
MaxCreated == 2
\* largest history-entry count and comment count of an estimate
MaxHistoryCount == 6
MaxCommentCount == 5
\* longest comment text of a round trip through the rich-text format
MaxComment == 4
\* longest id of an issue or of a raw work log handed to normalizeWorklog
MaxIdLen == 2
\* page fetches of one paged read that are followed
MaxFetches == 8

\* the ids the records of small batches and of remote pages are drawn from
SmallIds == {1, 2}

(***************************************************************************)
(* Small helpers.                                                          *)
(***************************************************************************)
Min(a, b) == IF a < b THEN a ELSE b
Max(a, b) == IF a > b THEN a ELSE b
Range(s) == {s[i] : i \in DOMAIN s}

VARIABLES
  \* ---- the store (table jira_worklogs) ----
  schema,         \* the newer columns the deployed table has
  table,          \* the rows of jira_worklogs
  \* ---- one upsertWorklogs call ----
  up_pc,          \* "idle", "full", "semi", "legacy", "done", "failed"
  entries,        \* the argument of the call
  dedupedEntries, \* [...uniqueById.values()]
  index,          \* loop variable, 0-based offset of the current chunk
  error,          \* the error of the last write of the current chunk
  \* ---- history of the call, read by the properties only ----
  writes,         \* the write requests of the current call, in order
  repeated        \* the call repeats the argument of the call that completed before it

storeVars == <<schema, table>>
upsertVars == <<up_pc, entries, dedupedEntries, index, error, writes, repeated>>

(***************************************************************************)
(* WorklogEntry values.  Every field of an entry is determined by its id   *)
(* and a version number, so that two versions of an id differ in every     *)
(* field an upsert may overwrite.                                          *)
(***************************************************************************)
MkEntry(i, v) ==
  [ id |-> i,
    issueId |-> 10000 + i,
    issueKey |-> "OPS-1",
    issueSummary |-> v,
    projectKey |-> "OPS",
    projectName |-> "Ops",
    author |-> v,
    authorAccountId |-> IF v % 2 = 1 THEN "acc-ada" ELSE "acc-bob",
    teamNames |-> IF v % 2 = 1 THEN <<"core">> ELSE <<>>,
    started |-> 10 * v,
    seconds |-> 900 * v,
    comment |-> IF v % 2 = 1 THEN <<"note">> ELSE <<>> ]

\* the three columns added to the table after its first deployment
NewColumns == {"author_account_id", "team_names", "comment"}

toRow(entry) ==
  [ id |-> entry.id,
    issue_id |-> entry.issueId,
    issue_key |-> entry.issueKey,
    issue_summary |-> entry.issueSummary,
    project_key |-> entry.projectKey,
    project_name |-> entry.projectName,
    author |-> entry.author,
    author_account_id |-> entry.authorAccountId,
    team_names |-> entry.teamNames,
    started |-> entry.started,
    seconds |-> entry.seconds,
    comment |-> entry.comment ]

\* a legacy row shape that has not dropped the comment column
toLegacyRowKeepsComment(entry) ==
  [ id |-> entry.id,
    issue_id |-> entry.issueId,
    issue_key |-> entry.issueKey,
    issue_summary |-> entry.issueSummary,
    project_key |-> entry.projectKey,
    project_name |-> entry.projectName,
    author |-> entry.author,
    started |-> entry.started,
    seconds |-> entry.seconds,
    comment |-> entry.comment ]

toLegacyRow(entry) ==
  [ id |-> entry.id,
    issue_id |-> entry.issueId,
    issue_key |-> entry.issueKey,
    issue_summary |-> entry.issueSummary,
    project_key |-> entry.projectKey,
    project_name |-> entry.projectName,
    author |-> entry.author,
    started |-> entry.started,
    seconds |-> entry.seconds ]

toLegacyRowWithComment(entry) ==
  [ id |-> entry.id,
    issue_id |-> entry.issueId,
    issue_key |-> entry.issueKey,
    issue_summary |-> entry.issueSummary,
    project_key |-> entry.projectKey,
    project_name |-> entry.projectName,
    author |-> entry.author,
    started |-> entry.started,
    seconds |-> entry.seconds,
    comment |-> entry.comment ]


(***************************************************************************)
(* The store: table jira_worklogs behind the upsert primitive              *)
(* (onConflict: "id", ignoreDuplicates: false).                            *)
(***************************************************************************)
BaseColumns ==
  {"id", "issue_id", "issue_key", "issue_summary", "project_key",
   "project_name", "author", "started", "seconds"}

ColumnDefaults ==
  [ author_account_id |-> "unknown-account", team_names |-> <<>>, comment |-> <<>> ]

NoError == [ failed |-> FALSE, message |-> {} ]
\* an error message is the set of words it contains
ErrorOf(words) == [ failed |-> TRUE, message |-> words ]
includes(message, word) == word \in message

RowIds(rows) == {rows[i].id : i \in DOMAIN rows}
RowColumns(rows) == UNION {DOMAIN rows[i] : i \in DOMAIN rows}

\* the rows of a payload by id (a payload the store accepts has no id twice)
RECURSIVE RowsById(_, _, _)
RowsById(rows, lo, hi) ==
  IF lo > hi THEN <<>>
  ELSE IF lo = hi THEN rows[lo].id :> rows[lo]
  ELSE LET mid == (lo + hi) \div 2
       IN RowsById(rows, mid + 1, hi) @@ RowsById(rows, lo, mid)

\* INSERT ... ON CONFLICT (id) DO UPDATE SET <the columns of the payload>:
\* a new row takes the column defaults, a row in conflict keeps the columns
\* the payload does not carry
MergeRow(T, row) ==
  IF row.id \notin DOMAIN T
  THEN [c \in BaseColumns \cup schema |->
          IF c \in DOMAIN row THEN row[c] ELSE ColumnDefaults[c]]
  ELSE [c \in DOMAIN T[row.id] |->
          IF c \in DOMAIN row THEN row[c] ELSE T[row.id][c]]

Upserted(T, rows) ==
  LET byId == RowsById(rows, 1, Len(rows))
  IN [id \in DOMAIN T \cup DOMAIN byId |->
        IF id \in DOMAIN byId THEN MergeRow(T, byId[id]) ELSE T[id]]

\* what one upsert request may answer: the error and the table afterwards
StoreResponses(rows) ==
  LET missing == (RowColumns(rows) \cap NewColumns) \ schema
  IN {[error |-> ErrorOf({"fetch", "failed"}), table |-> table]}
     \cup
     IF missing # {}
     THEN {[error |-> ErrorOf({"column", c, "jira_worklogs"}), table |-> table] :
             c \in missing}
     ELSE IF Cardinality(RowIds(rows)) # Len(rows)
     THEN {[error |-> ErrorOf({"row", "second", "time"}), table |-> table]}
     ELSE {[error |-> NoError, table |-> Upserted(table, rows)]}

(***************************************************************************)
(* upsertWorklogs                                                          *)
(***************************************************************************)
chunkSize == 500

\* uniqueById after `for (const entry of entries) uniqueById.set(entry.id, entry)`
\* over entries[lo..hi]: a Map keeps a key at the position of its first set()
\* and gives it the value of its last set().  The loop over lo..hi is the loop
\* over lo..mid followed by the loop over mid+1..hi (the recursion is split in
\* halves so that a batch of more than chunkSize entries can be evaluated).
RECURSIVE MapAfter(_, _, _)
MapAfter(es, lo, hi) ==
  IF lo > hi THEN [keys |-> <<>>, value |-> <<>>]
  ELSE IF lo = hi THEN [keys |-> <<es[lo].id>>, value |-> es[lo].id :> es[lo]]
  ELSE LET mid == (lo + hi) \div 2
           a == MapAfter(es, lo, mid)
           b == MapAfter(es, mid + 1, hi)
       IN [keys |-> a.keys \o SelectSeq(b.keys, LAMBDA k : k \notin DOMAIN a.value),
           value |-> b.value @@ a.value]

\* a de-duplication that keeps the first entry of an id instead of the last
uniqueByIdFirstWins(es) ==
  LET m == MapAfter(es, 1, Len(es))
  IN [k \in DOMAIN m.keys |->
        es[CHOOSE i \in DOMAIN es :
             es[i].id = m.keys[k] /\ \A j \in 1..(i - 1) : es[j].id # es[i].id]]

\* no de-duplication at all
uniqueByIdKeepsAll(es) == es

\* [...uniqueById.values()]
uniqueById(es) ==
  LET m == MapAfter(es, 1, Len(es))
  IN [k \in DOMAIN m.keys |-> m.value[m.keys[k]]]

\* dedupedEntries.slice(index, index + chunkSize)
ChunkEntries ==
  SubSeq(dedupedEntries, index + 1, Min(index + chunkSize, Len(dedupedEntries)))

FullChunk == [k \in DOMAIN ChunkEntries |-> toRow(ChunkEntries[k])]
SemiLegacyChunk == [k \in DOMAIN ChunkEntries |-> toLegacyRowWithComment(ChunkEntries[k])]
LegacyChunk == [k \in DOMAIN ChunkEntries |-> toLegacyRow(ChunkEntries[k])]

\* a first fallback that is tried after every failure
NamesNewColumnAnyError(err) == err.failed

\* the condition of the first fallback
NamesNewColumn(err) ==
  /\ err.failed
  /\ err.message # {}
  /\ \/ includes(err.message, "author_account_id")
     \/ includes(err.message, "team_names")
     \/ includes(err.message, "comment")

\* the condition of the second fallback
NamesComment(err) == err.failed /\ includes(err.message, "comment")

\* a loop that logs the failure of a chunk and goes on with the next one
AfterChunkKeepsGoing(err) ==
  /\ index' = index + chunkSize
  /\ up_pc' = IF index + chunkSize < Len(dedupedEntries)
              THEN "full"
              ELSE IF err.failed THEN "failed" ELSE "done"

\* if (error) throw ...; otherwise the loop goes on with the next chunk
AfterChunk(err) ==
  IF err.failed
  THEN /\ up_pc' = "failed"
       /\ index' = index
  ELSE /\ index' = index + chunkSize
       /\ up_pc' = IF index + chunkSize < Len(dedupedEntries) THEN "full" ELSE "done"

UpsertStart(es) ==
  /\ up_pc \in {"idle", "done", "failed"}
  /\ entries' = es
  /\ repeated' = (up_pc = "done" /\ es = entries)
  /\ writes' = <<>>
  /\ error' = NoError
  /\ index' = 0
  /\ IF Len(es) = 0
     THEN /\ dedupedEntries' = <<>>
          /\ up_pc' = "done"
     ELSE /\ dedupedEntries' = uniqueById(es)
          /\ up_pc' = "full"
  /\ UNCHANGED storeVars

WriteFull ==
  /\ up_pc = "full"
  /\ \E resp \in StoreResponses(FullChunk) :
       /\ table' = resp.table
       /\ error' = resp.error
       /\ writes' = Append(writes, [index |-> index, shape |-> "full",
                                     rows |-> FullChunk, error |-> resp.error])
       /\ IF NamesNewColumn(resp.error)
          THEN up_pc' = "semi" /\ index' = index
          ELSE AfterChunk(resp.error)
  /\ UNCHANGED <<schema, entries, dedupedEntries, repeated>>

WriteSemiLegacy ==
  /\ up_pc = "semi"
  /\ \E resp \in StoreResponses(SemiLegacyChunk) :
       /\ table' = resp.table
       /\ error' = resp.error
       /\ writes' = Append(writes, [index |-> index, shape |-> "semi",
                                     rows |-> SemiLegacyChunk, error |-> resp.error])
       /\ IF NamesComment(resp.error)
          THEN up_pc' = "legacy" /\ index' = index
          ELSE AfterChunk(resp.error)
  /\ UNCHANGED <<schema, entries, dedupedEntries, repeated>>

WriteLegacy ==
  /\ up_pc = "legacy"
  /\ \E resp \in StoreResponses(LegacyChunk) :
       /\ table' = resp.table
       /\ error' = resp.error
       /\ writes' = Append(writes, [index |-> index, shape |-> "legacy",
                                     rows |-> LegacyChunk, error |-> resp.error])
       /\ AfterChunk(resp.error)
  /\ UNCHANGED <<schema, entries, dedupedEntries, repeated>>

(***************************************************************************)
(* Remote data.  A timestamp is the UTC day and minute it denotes, or a     *)
(* string new Date() cannot parse.  Undefined is an absent property.        *)
(***************************************************************************)
Undefined == "<undefined>"
InvalidDate == [ok |-> FALSE, day |-> 0, minute |-> 0]
At(d, m) == [ok |-> TRUE, day |-> d, minute |-> m]

Ada == [accountId |-> "acc-ada", displayName |-> "Ada", emailAddress |-> "ada@x.io"]
Bob == [accountId |-> "acc-bob", displayName |-> "Bob", emailAddress |-> "bob@x.io"]

MkWorklog(i, secs, ts, who) ==
  [id |-> i, timeSpentSeconds |-> secs, started |-> ts, author |-> who]

\* issue.fields.worklog when the issue carries none
NoWorklogContainer ==
  [present |-> FALSE, startAt |-> 0, maxResults |-> 0, total |-> 0, worklogs |-> <<>>]

(***************************************************************************)
(* getAllIssueWorklogs                                                     *)
(***************************************************************************)
VARIABLES
  wl_pc,        \* "idle", "loop", "done", "failed"
  wl_initial,   \* issue.fields.worklog of the issue of the call
  wl_worklogs,  \* the accumulated work logs
  wl_startAt,   \* the offset of the next request
  wl_requests,  \* the number of follow-up requests sent so far, modulo 2
  \* ---- the remote's per-issue work-log endpoint during the call ----
  wl_remote,    \* the work logs of the issue the endpoint lists
  wl_pageSize   \* the page size the endpoint serves and reports

wlVars == <<wl_pc, wl_initial, wl_worklogs, wl_startAt, wl_requests, wl_remote, wl_pageSize>>

\* offsets are followed up to here and held there: no list of the remote is
\* longer than MaxTotal, so every page at or behind this offset is empty
MaxStartAt == MaxTotal + 1

\* while (worklogs.length < initial.total), tested after a page was pushed
WorklogLoopGoesOn(worklogs, total) == Len(worklogs) < total

\* GET /rest/api/3/issue/{id}/worklog?startAt=..: the page at the offset
WorklogPageAt(startAt) ==
  [ worklogs |-> SubSeq(wl_remote, startAt + 1, Min(startAt + wl_pageSize, Len(wl_remote))),
    maxResults |-> wl_pageSize,
    startAt |-> startAt,
    total |-> Len(wl_remote) ]

\* the call up to its first await (or to its return), for an issue whose
\* work logs the endpoint lists as `listed`, in pages of `size`
GetAllIssueWorklogs(initial, listed, size) ==
  /\ wl_pc = "idle"
  /\ wl_initial' = initial
  /\ wl_remote' = listed
  /\ wl_pageSize' = size
  /\ wl_requests' = 0
  /\ IF ~initial.present
     THEN /\ wl_worklogs' = <<>>
          /\ wl_startAt' = 0
          /\ wl_pc' = "done"
     ELSE /\ wl_worklogs' = initial.worklogs
          /\ wl_startAt' = Min(initial.startAt + initial.maxResults, MaxStartAt)
          /\ wl_pc' = IF Len(initial.worklogs) < initial.total THEN "loop" ELSE "done"

\* one follow-up request answered with a page.  The offset is only sent to
\* the remote; it is followed up to MaxStartAt and held there.
FetchWorklogPage(response) ==
  /\ wl_pc = "loop"
  /\ wl_worklogs' = wl_worklogs \o response.worklogs
  /\ wl_startAt' = Min(wl_startAt + response.maxResults, MaxStartAt)
  /\ wl_pc' = IF WorklogLoopGoesOn(wl_worklogs', wl_initial.total)
              THEN "loop" ELSE "done"
  /\ wl_requests' = 1 - wl_requests
  /\ UNCHANGED <<wl_initial, wl_remote, wl_pageSize>>

\* one follow-up request answered with a non-2xx status: jiraGet throws
FetchWorklogPageFails ==
  /\ wl_pc = "loop"
  /\ wl_pc' = "failed"
  /\ wl_requests' = 1 - wl_requests
  /\ UNCHANGED <<wl_initial, wl_worklogs, wl_startAt, wl_remote, wl_pageSize>>

InitWorklogs ==
  /\ wl_pc = "idle"
  /\ wl_initial = NoWorklogContainer
  /\ wl_worklogs = <<>>
  /\ wl_startAt = 0
  /\ wl_requests = 0
  /\ wl_remote = <<>>
  /\ wl_pageSize = 1

(***************************************************************************)
(* fetchIssues                                                             *)
(***************************************************************************)
VARIABLES
  cfg_maxIssues, \* cfg.maxIssues
  remote,        \* how the remote answers the issue search
  fi_pc,         \* "idle", "loop", "done", "failed"
  allIssues,     \* the accumulated issues; the result once fi_pc = "done"
  fi_startAt,    \* the offset of the next request
  fi_pages       \* history: the number of issues of every page received

issueVars == <<cfg_maxIssues, remote, fi_pc, allIssues, fi_startAt, fi_pages>>

MkIssue(i) ==
  [id |-> 10000 + i, key |-> i, summary |-> "Fix outage", worklog |-> NoWorklogContainer]

\* allIssues.slice(0, cfg.maxIssues)
SliceTo(issues, n) == SubSeq(issues, 1, Min(n, Len(issues)))

\* a search loop that stops on an empty page only
SearchStopsOnEmptyOnly(startAt, response) == Len(response.issues) = 0

\* if (startAt >= response.total || response.issues.length === 0) break
SearchStops(startAt, response) ==
  startAt >= response.total \/ Len(response.issues) = 0

\* the call up to its first await (or to its return)
FetchIssues ==
  /\ fi_pc \in {"idle", "done", "failed"}
  /\ allIssues' = <<>>
  /\ fi_startAt' = 0
  /\ fi_pages' = <<>>
  /\ fi_pc' = IF 0 < cfg_maxIssues THEN "loop" ELSE "done"
  /\ UNCHANGED <<cfg_maxIssues, remote>>

\* one search request answered with a page
FetchIssuesPage(response) ==
  /\ fi_pc = "loop"
  /\ fi_pages' = Append(fi_pages, Len(response.issues))
  /\ fi_startAt' = fi_startAt + response.maxResults
  /\ LET all == allIssues \o response.issues
     IN IF SearchStops(fi_startAt', response) \/ ~(Len(all) < cfg_maxIssues)
        THEN /\ allIssues' = SliceTo(all, cfg_maxIssues)
             /\ fi_pc' = "done"
        ELSE /\ allIssues' = all
             /\ fi_pc' = "loop"
  /\ UNCHANGED <<cfg_maxIssues, remote>>

\* one search request answered with a non-2xx status: jiraGet throws
FetchIssuesPageFails ==
  /\ fi_pc = "loop"
  /\ fi_pc' = "failed"
  /\ UNCHANGED <<cfg_maxIssues, remote, allIssues, fi_startAt, fi_pages>>

\* a remote that holds issues 1..N, always reports total = N and serves the
\* page of size k at the requested offset
RegularRemote(N, k) == [kind |-> "regular", total |-> N, size |-> k]
ArbitraryRemote == [kind |-> "arbitrary", total |-> 0, size |-> 0]

RegularPage(startAt) ==
  [ issues |-> [i \in 1..(Min(startAt + remote.size, remote.total) - Min(startAt, remote.total))
                  |-> MkIssue(startAt + i)],
    maxResults |-> remote.size,
    total |-> remote.total ]

IssuePages ==
  [ issues : UNION {[1..n -> {MkIssue(i) : i \in SmallIds}] : n \in 0..MaxPage},
    maxResults : 0..MaxPage,
    total : 0..MaxTotal ]

\* what the remote may answer to a search at the given offset
SearchResponses(startAt) ==
  IF remote.kind = "regular" THEN {RegularPage(startAt)} ELSE IssuePages

InitIssues ==
  /\ cfg_maxIssues \in 0..MaxIssuesCfg
  /\ remote \in {ArbitraryRemote} \cup
                {RegularRemote(N, k) : N \in 0..MaxTotal, k \in 1..MaxPage}
  /\ fi_pc = "idle"
  /\ allIssues = <<>>
  /\ fi_startAt = 0
  /\ fi_pages = <<>>

(***************************************************************************)
(* Texts.  A string is the sequence of its characters; the white-space     *)
(* characters are " ", "LF", "CR" and "TAB", every other element stands    *)
(* for a run of characters without white space.  A rich-text document is   *)
(* the sequence of its paragraphs, a paragraph the sequence of the texts   *)
(* of its text nodes.                                                      *)
(***************************************************************************)
WhiteSpace == {" ", "LF", "CR", "TAB"}

\* value.trim()
RECURSIVE TrimStart(_)
TrimStart(s) ==
  IF s # <<>> /\ Head(s) \in WhiteSpace THEN TrimStart(Tail(s)) ELSE s

RECURSIVE TrimEnd(_)
TrimEnd(s) ==
  IF s # <<>> /\ s[Len(s)] \in WhiteSpace THEN TrimEnd(SubSeq(s, 1, Len(s) - 1)) ELSE s

Trim(s) == TrimEnd(TrimStart(s))

\* value.split(/\r?\n/)
RECURSIVE SplitLines(_)
SplitLines(s) ==
  IF \A i \in DOMAIN s : s[i] # "LF" THEN <<s>>
  ELSE LET at == CHOOSE i \in DOMAIN s : s[i] = "LF" /\ \A j \in 1..(i - 1) : s[j] # "LF"
           upTo == IF at > 1 /\ s[at - 1] = "CR" THEN at - 2 ELSE at - 1
       IN <<SubSeq(s, 1, upTo)>> \o SplitLines(SubSeq(s, at + 1, Len(s)))

\* value.replace(/\s+/g, " ")
RECURSIVE CollapseWhiteSpace(_)
CollapseWhiteSpace(s) ==
  IF s = <<>> THEN <<>>
  ELSE IF Head(s) \in WhiteSpace
  THEN <<" ">> \o CollapseWhiteSpace(TrimStart(s))
  ELSE <<Head(s)>> \o CollapseWhiteSpace(Tail(s))

\* parts.join(" ")
RECURSIVE JoinSpace(_)
JoinSpace(parts) ==
  IF parts = <<>> THEN <<>>
  ELSE IF Len(parts) = 1 THEN parts[1]
  ELSE parts[1] \o <<" ">> \o JoinSpace(Tail(parts))

NonEmpty(s) == s # <<>>

\* a conversion without the placeholder paragraph
toAdfCommentNoPlaceholder(comment) ==
  LET lines == SelectSeq([i \in DOMAIN SplitLines(Trim(comment)) |->
                            Trim(SplitLines(Trim(comment))[i])], NonEmpty)
  IN [i \in DOMAIN lines |-> <<lines[i]>>]

\* one paragraph with one text node per non-blank line of the comment
toAdfComment(comment) ==
  LET normalized == Trim(comment)
      trimmed == [i \in DOMAIN SplitLines(normalized) |-> Trim(SplitLines(normalized)[i])]
      lines == IF Len(normalized) > 0 THEN SelectSeq(trimmed, NonEmpty)
               ELSE << <<"Arbeit am Ticket dokumentiert.">> >>
  IN [i \in DOMAIN lines |-> <<lines[i]>>]

\* extractAdfText of a document: content.map(extractAdfText).join(" ").trim()
\* on the document and on each of its paragraphs
extractAdfText(doc) ==
  Trim(JoinSpace([i \in DOMAIN doc |-> Trim(JoinSpace(doc[i]))]))

\* a normalisation that returns the extracted text as it is
normalizeWorklogCommentAsExtracted(comment) == extractAdfText(comment)

\* no comment gives the empty string
normalizeWorklogComment(comment) ==
  IF comment = <<>> THEN <<>> ELSE Trim(CollapseWhiteSpace(extractAdfText(comment)))

VARIABLES
  cm_pc,        \* "idle", "done"
  cm_input,     \* the comment text handed to toAdfComment
  cm_document,  \* the document posted to the remote
  cm_output     \* the text normalizeWorklogComment reads back from it

commentVars == <<cm_pc, cm_input, cm_document, cm_output>>

\* a comment is written to the remote as a document and read back
CommentRoundTrip(comment) ==
  /\ cm_pc = "idle"
  /\ cm_input' = comment
  /\ cm_document' = toAdfComment(comment)
  /\ cm_output' = normalizeWorklogComment(cm_document')
  /\ cm_pc' = "done"

InitComment ==
  /\ cm_pc = "idle"
  /\ cm_input = <<>>
  /\ cm_document = <<>>
  /\ cm_output = <<>>

Characters == {"a", "b"} \cup WhiteSpace
Comments == UNION {[1..n -> Characters] : n \in 0..MaxComment}

(***************************************************************************)
(* POST /api/suggestions/create-worklog and createJiraWorklog               *)
(***************************************************************************)
VARIABLES
  supabaseConfigured, \* isSupabaseConfigured(): the store's environment is set
  jiraWorklogs,       \* the work logs the remote has created
  cr_pc,              \* "idle", "posting", "storing", "responded"
  cr_body,            \* the request's payload
  cr_created,         \* what createJiraWorklog returned
  cr_before,          \* the remote's work logs when the request came in
  cr_response         \* the response the caller receives

createVars ==
  <<supabaseConfigured, jiraWorklogs, cr_pc, cr_body, cr_created, cr_before, cr_response>>

\* new Date(value): the instant a string denotes, if it denotes one
DateOf(value) ==
  CASE value = "2026-03-02T10:00:00Z" -> At(2, 600)
    [] value = "2026-03-03T09:30:00Z" -> At(3, 570)
    [] OTHER -> InvalidDate

\* a || b on strings
OrElse(a, b) == IF a = <<>> THEN b ELSE a

NoBody ==
  [ issueId |-> <<>>, issueKey |-> "", issueSummary |-> "", projectKey |-> "",
    projectName |-> "", member |-> "", memberAccountId |-> Undefined,
    started |-> "", seconds |-> 0, comment |-> <<>> ]

NoCreated == [id |-> <<>>, started |-> InvalidDate, seconds |-> 0, comment |-> <<>>]

Responded(status, message) == [status |-> status, error |-> message, created |-> NoCreated]

NoResponse == Responded(0, {})

\* the request body's checks, lines 33-44: the response of the first that fails
Validation(body) ==
  IF \/ body.issueKey = "" \/ body.issueId = <<>> \/ body.issueSummary = ""
     \/ body.projectKey = "" \/ body.projectName = ""
  THEN Responded(400, {"Missing", "issue", "metadata"})
  ELSE IF body.member = "" THEN Responded(400, {"Missing", "member"})
  ELSE IF body.started = "" THEN Responded(400, {"Missing", "started", "datetime"})
  ELSE IF body.seconds <= 0 THEN Responded(400, {"Invalid", "duration"})
  ELSE NoResponse

\* the payload createJiraWorklog posts
Payload(input) ==
  [ timeSpentSeconds |-> Max(60, input.seconds),
    started |-> DateOf(input.started),
    comment |-> toAdfComment(input.comment) ]

\* an id built from the raw work-log id alone
WorklogEntryIdRawOnly(issueId, worklogId) == worklogId

\* `${issue.id}:${worklog.id}` and `${body.issueId}:${created.id}`; ids are texts
WorklogEntryId(issueId, worklogId) == issueId \o <<":">> \o worklogId

\* the row the entry point persists for a created work log
CreatedRow(body, created) ==
  [ id |-> WorklogEntryId(body.issueId, created.id),
    issueId |-> body.issueId,
    issueKey |-> body.issueKey,
    issueSummary |-> body.issueSummary,
    projectKey |-> body.projectKey,
    projectName |-> body.projectName,
    author |-> body.member,
    authorAccountId |-> IF body.memberAccountId = Undefined
                        THEN "unknown-account" ELSE body.memberAccountId,
    teamNames |-> <<>>,
    started |-> created.started,
    seconds |-> created.seconds,
    comment |-> OrElse(created.comment, body.comment) ]

CreatedResponse(body, created) ==
  [ status |-> 200,
    error |-> {},
    created |-> [created EXCEPT !.comment = OrElse(created.comment, body.comment)] ]

\* the entry point up to the POST to the remote (or to its response)
POST(isAuthed, parsed, body) ==
  /\ cr_pc \in {"idle", "responded"}
  /\ up_pc \in {"idle", "done", "failed"}
  /\ Cardinality(jiraWorklogs) < MaxCreated
  /\ cr_before' = jiraWorklogs
  /\ cr_created' = NoCreated
  /\ cr_body' = IF isAuthed /\ parsed THEN body ELSE NoBody
  /\ IF ~isAuthed
     THEN cr_response' = Responded(401, {"Unauthorized"}) /\ cr_pc' = "responded"
     ELSE IF ~parsed
     THEN cr_response' = Responded(400, {"Invalid", "JSON", "body"}) /\ cr_pc' = "responded"
     ELSE IF Validation(body) # NoResponse
     THEN cr_response' = Validation(body) /\ cr_pc' = "responded"
     ELSE IF ~DateOf(body.started).ok
     THEN /\ cr_response' = Responded(500, {"Invalid", "started", "datetime"})
          /\ cr_pc' = "responded"
     ELSE cr_response' = NoResponse /\ cr_pc' = "posting"
  /\ UNCHANGED <<supabaseConfigured, jiraWorklogs, storeVars, upsertVars>>

\* the ids the remote gives to the work logs it creates, in order
CreatedIds == [n \in 1..(MaxCreated + 1) |-> <<"70", <<"0", "1", "2", "3", "4", "5">>[n]>>]

\* the work log the remote creates for a payload
RemoteWorklog(issueKey, payload) ==
  [ issueKey |-> issueKey,
    id |-> CreatedIds[Cardinality(jiraWorklogs) + 1],
    started |-> payload.started,
    timeSpentSeconds |-> payload.timeSpentSeconds,
    comment |-> payload.comment ]

\* the remote answers the POST with 2xx: the work log exists from here on
JiraPostCreated ==
  /\ cr_pc = "posting"
  /\ LET worklog == RemoteWorklog(cr_body.issueKey, Payload(cr_body))
         created == [ id |-> worklog.id,
                      started |-> worklog.started,
                      seconds |-> worklog.timeSpentSeconds,
                      comment |-> normalizeWorklogComment(worklog.comment) ]
     IN /\ jiraWorklogs' = jiraWorklogs \cup {worklog}
        /\ cr_created' = created
        /\ IF supabaseConfigured
           THEN /\ UpsertStart(<<CreatedRow(cr_body, created)>>)
                /\ cr_pc' = "storing"
                /\ cr_response' = NoResponse
           ELSE /\ cr_response' = CreatedResponse(cr_body, created)
                /\ cr_pc' = "responded"
                /\ UNCHANGED <<storeVars, upsertVars>>
  /\ UNCHANGED <<supabaseConfigured, cr_body, cr_before>>

\* the remote answers the POST with a non-2xx status: jiraPost throws
JiraPostRejected ==
  /\ cr_pc = "posting"
  /\ cr_response' = Responded(500, {"Jira", "request", "failed"})
  /\ cr_pc' = "responded"
  /\ UNCHANGED <<supabaseConfigured, jiraWorklogs, cr_body, cr_created, cr_before,
                 storeVars, upsertVars>>

\* upsertWorklogs has returned or thrown: lines 72-83
CreateResponds ==
  /\ cr_pc = "storing"
  /\ up_pc \in {"done", "failed"}
  /\ cr_response' = IF up_pc = "done"
                    THEN CreatedResponse(cr_body, cr_created)
                    ELSE Responded(500, error.message)
  /\ cr_pc' = "responded"
  /\ UNCHANGED <<supabaseConfigured, jiraWorklogs, cr_body, cr_created, cr_before,
                 storeVars, upsertVars>>

ValidBody ==
  [ issueId |-> <<"10001">>, issueKey |-> "OPS-1", issueSummary |-> "Fix login",
    projectKey |-> "OPS", projectName |-> "Ops", member |-> "Ada",
    memberAccountId |-> "acc-ada", started |-> "2026-03-02T10:00:00Z",
    seconds |-> 3600, comment |-> <<"reviewed", "LF", " ", "twice">> ]

Bodies ==
  { ValidBody,
    [ValidBody EXCEPT !.issueKey = ""],
    [ValidBody EXCEPT !.member = ""],
    [ValidBody EXCEPT !.started = ""],
    [ValidBody EXCEPT !.started = "tomorrow"],
    [ValidBody EXCEPT !.seconds = 0],
    [ValidBody EXCEPT !.seconds = 30, !.comment = <<" ", " ">>],
    [ValidBody EXCEPT !.memberAccountId = Undefined, !.started = "2026-03-03T09:30:00Z"] }

InitCreate ==
  /\ supabaseConfigured \in BOOLEAN
  /\ jiraWorklogs = {}
  /\ cr_pc = "idle"
  /\ cr_body = NoBody
  /\ cr_created = NoCreated
  /\ cr_before = {}
  /\ cr_response = NoResponse

IdleCreate == InitCreate /\ supabaseConfigured = FALSE

(***************************************************************************)
(* estimateSuggestionHours.  Hours are counted in hundredths: every term   *)
(* of the estimate is a multiple of 0.05, so the sum is at least 0.025     *)
(* away from the next rounding boundary of roundToQuarter and the          *)
(* floating-point sum rounds as the exact one does.                        *)
(***************************************************************************)
VARIABLES
  est_pc,           \* "idle", "done"
  est_fieldKeys,    \* the arguments of the call
  est_historyCount,
  est_commentCount,
  est_hours,        \* the returned hours, in hundredths
  est_seconds       \* the seconds of the suggestion built from them

estimateVars ==
  <<est_pc, est_fieldKeys, est_historyCount, est_commentCount, est_hours, est_seconds>>

\* Math.round(n / d) for n >= 0
RoundDiv(n, d) == (2 * n + d) \div (2 * d)

\* a rounding that returns the estimate as computed
roundToQuarterExact(hours) == Max(25, hours)

\* Math.max(0.25, Math.round(hours * 4) / 4)
roundToQuarter(hours) == Max(25, RoundDiv(hours * 4, 100) * 25)

estimateSuggestionHours(fieldKeys, historyCount, commentCount) ==
  LET uniqueFields == Range(fieldKeys)
      hours == 75 + Min(175, historyCount * 35)
                  + Min(100, Cardinality(uniqueFields) * 15)
                  + Min(100, commentCount * 25)
                  + (IF "status" \in uniqueFields \/ "resolution" \in uniqueFields
                     THEN 25 ELSE 0)
  IN Min(600, roundToQuarter(hours))

\* line 683: Math.max(900, Math.round(hours * 3600))
SuggestionSeconds(hours) == Max(900, RoundDiv(hours * 3600, 100))

\* one call, and the seconds derived from its result
EstimateSuggestion(fieldKeys, historyCount, commentCount) ==
  /\ est_pc = "idle"
  /\ est_fieldKeys' = fieldKeys
  /\ est_historyCount' = historyCount
  /\ est_commentCount' = commentCount
  /\ est_hours' = estimateSuggestionHours(fieldKeys, historyCount, commentCount)
  /\ est_seconds' = SuggestionSeconds(est_hours')
  /\ est_pc' = "done"

InitEstimate ==
  /\ est_pc = "idle"
  /\ est_fieldKeys = <<>>
  /\ est_historyCount = 0
  /\ est_commentCount = 0
  /\ est_hours = 0
  /\ est_seconds = 0

\* field keys as toFieldKey leaves them
FieldPool ==
  << "summary", "description", "assignee", "priority", "labels", "sprint",
     "fix version", "status", "resolution", "comment" >>

\* runs of the pool, once or twice over
FieldKeyLists ==
  LET runs == { SubSeq(FieldPool, a, b) : a \in 1..Len(FieldPool), b \in 0..Len(FieldPool) }
  IN runs \cup { r \o r : r \in runs }

(***************************************************************************)
(* generateWorklogSuggestions                                              *)
(***************************************************************************)
VARIABLES
  sg_pc,          \* "idle", "issue", "comments", "worklogs", "done", "failed"
  sg_query,       \* the SuggestionQuery
  sg_issues,      \* what fetchIssuesUpdatedOnDay returned
  sg_i,           \* the position of the for loop in sg_issues
  sg_histories,   \* relevantHistories of the current issue
  sg_comments,    \* relevantComments of the current issue
  suggestions,    \* the suggestions pushed so far; the result when done
  sg_log          \* per issue that reached line 658: its key and the work logs gathered

suggestVars ==
  <<sg_pc, sg_query, sg_issues, sg_i, sg_histories, sg_comments, suggestions, sg_log>>

\* value.trim().toLowerCase()
normalizePersonName(value) ==
  CASE value \in {"", " "} -> ""
    [] value \in {"Ada", " ADA ", "ada"} -> "ada"
    [] value \in {"Bob", "bob"} -> "bob"
    [] OTHER -> value

\* a ?? b
OrDefault(a, b) == IF a = Undefined THEN b ELSE a

\* the author test shared by histories, comments and work logs: lines 641-645,
\* 614-620, 663-669
MatchesMember(accountId, name, query) ==
  LET matchesAccount == query.accountId # "" /\ accountId # "" /\ accountId = query.accountId
      matchesName == /\ normalizePersonName(name) # ""
                     /\ normalizePersonName(name) = normalizePersonName(query.memberName)
  IN matchesAccount \/ matchesName

\* dayKey(value) throws a RangeError on a timestamp new Date() cannot parse
DayKeyThrows(ts) == ~ts.ok
dayKey(ts) == ts.day

MkHistory(i, ts, who, fields) == [id |-> i, created |-> ts, author |-> who, items |-> fields]
MkComment(i, ts, who) == [id |-> i, created |-> ts, author |-> who]

\* lines 637-646
RelevantHistory(history, query) ==
  /\ dayKey(history.created) = query.date
  /\ MatchesMember(OrDefault(history.author.accountId, ""),
                   OrDefault(history.author.displayName, ""), query)

\* a comment that was edited after it was written
MkEditedComment(i, ts, edited, who) ==
  [id |-> i, created |-> ts, updated |-> edited, author |-> who]

\* comment.updated ?? comment.created, line 610
dateToCheck(comment) ==
  IF "updated" \in DOMAIN comment THEN comment.updated ELSE comment.created

\* lines 609-621
RelevantComment(comment, query) ==
  /\ dayKey(dateToCheck(comment)) = query.date
  /\ MatchesMember(OrDefault(comment.author.accountId, ""),
                   OrDefault(comment.author.displayName,
                             OrDefault(comment.author.emailAddress, "")), query)

\* the callback of issueWorklogs.some(), lines 659-670
TrackedOnDay(worklog, query) ==
  /\ dayKey(worklog.started) = query.date
  /\ MatchesMember(OrDefault(worklog.author.accountId, ""),
                   OrDefault(worklog.author.displayName,
                             OrDefault(worklog.author.emailAddress, "")), query)

\* a test that looks at the first work log only
hasTrackedOnDayFirstOnly(worklogs, query) ==
  IF worklogs = <<>> THEN "no"
  ELSE IF DayKeyThrows(worklogs[1].started) THEN "throws"
  ELSE IF TrackedOnDay(worklogs[1], query) THEN "yes" ELSE "no"

\* issueWorklogs.some(..): "yes" at the first work log that passes, "throws"
\* at an unparseable start before it, "no" otherwise
RECURSIVE hasTrackedOnDay(_, _)
hasTrackedOnDay(worklogs, query) ==
  IF worklogs = <<>> THEN "no"
  ELSE IF DayKeyThrows(Head(worklogs).started) THEN "throws"
  ELSE IF TrackedOnDay(Head(worklogs), query) THEN "yes"
  ELSE hasTrackedOnDay(Tail(worklogs), query)

TsBefore(a, b) == a.day < b.day \/ (a.day = b.day /\ a.minute < b.minute)

\* startCandidates[0] ?? fallbackStarted, lines 684-695
NormalizedStarted(histories, comments, query) ==
  LET candidates == { x.created : x \in Range(histories) \cup Range(comments) }
      valid == { ts \in candidates : ts.ok }
  IN IF valid = {} THEN At(query.date, 600)
     ELSE CHOOSE ts \in valid : \A other \in valid : ~TsBefore(other, ts)

\* lines 676-680
RECURSIVE FlatItems(_)
FlatItems(histories) ==
  IF histories = <<>> THEN <<>> ELSE Head(histories).items \o FlatItems(Tail(histories))

FieldKeysOf(histories, comments) ==
  FlatItems(histories) \o (IF Len(comments) > 0 THEN <<"comment">> ELSE <<>>)

\* lines 682-714; the generated texts are left out
Suggestion(issue, histories, comments, query) ==
  LET fieldKeys == FieldKeysOf(histories, comments)
      hours == estimateSuggestionHours(fieldKeys, Len(histories), Len(comments))
  IN [ id |-> << issue.key,
                 IF Len(histories) > 0 THEN histories[1].id
                 ELSE IF Len(comments) > 0 THEN comments[1].id ELSE issue.id >>,
       issueId |-> issue.id,
       issueKey |-> issue.key,
       started |-> NormalizedStarted(histories, comments, query),
       seconds |-> SuggestionSeconds(hours),
       changedFields |-> Range(fieldKeys) ]

\* suggestions.sort((a, b) => a.started.localeCompare(b.started)): stable
RECURSIVE SortByStarted(_)
SortByStarted(seq) ==
  IF seq = <<>> THEN <<>>
  ELSE LET last == seq[Len(seq)]
           front == SortByStarted(SubSeq(seq, 1, Len(seq) - 1))
           keep == { k \in 0..Len(front) :
                       \A j \in 1..k : ~TsBefore(last.started, front[j].started) }
           k == CHOOSE x \in keep : \A y \in keep : y <= x
       IN SubSeq(front, 1, k) \o <<last>> \o SubSeq(front, k + 1, Len(front))

\* the call, once fetchIssuesUpdatedOnDay has returned `issues`
GenerateWorklogSuggestions(query, issues) ==
  /\ sg_pc = "idle"
  /\ sg_query' = query
  /\ sg_issues' = issues
  /\ sg_i' = 1
  /\ sg_histories' = <<>>
  /\ sg_comments' = <<>>
  /\ suggestions' = <<>>
  /\ sg_log' = <<>>
  /\ sg_pc' = "issue"
  /\ UNCHANGED wlVars

\* the for loop's head up to the await of the comments, or the final sort
SuggestIssue ==
  /\ sg_pc = "issue"
  /\ IF sg_i > Len(sg_issues)
     THEN /\ suggestions' = SortByStarted(suggestions)
          /\ sg_pc' = "done"
          /\ UNCHANGED <<sg_i, sg_histories>>
     ELSE LET issue == sg_issues[sg_i] IN
          IF issue.key \in sg_query.existingIssueKeys
          THEN /\ sg_i' = sg_i + 1
               /\ UNCHANGED <<sg_pc, sg_histories, suggestions>>
          ELSE IF \E j \in DOMAIN issue.histories : DayKeyThrows(issue.histories[j].created)
          THEN /\ sg_pc' = "failed"
               /\ suggestions' = <<>>
               /\ UNCHANGED <<sg_i, sg_histories>>
          ELSE /\ sg_histories' =
                    SelectSeq(issue.histories, LAMBDA h : RelevantHistory(h, sg_query))
               /\ sg_pc' = "comments"
               /\ UNCHANGED <<sg_i, suggestions>>
  /\ UNCHANGED <<sg_query, sg_issues, sg_comments, sg_log, wlVars>>

\* fetchIssueCommentsByMemberOnDate has read `comments` from the remote; on
\* to getAllIssueWorklogs, whose endpoint lists `listed` in pages of `size`
SuggestComments(comments, listed, size) ==
  /\ sg_pc = "comments"
  /\ IF \E j \in DOMAIN comments : DayKeyThrows(dateToCheck(comments[j]))
     THEN /\ sg_pc' = "failed"
          /\ suggestions' = <<>>
          /\ UNCHANGED <<sg_i, sg_comments, wlVars>>
     ELSE /\ sg_comments' = SelectSeq(comments, LAMBDA c : RelevantComment(c, sg_query))
          /\ UNCHANGED suggestions
          /\ IF Len(sg_histories) = 0 /\ Len(sg_comments') = 0
             THEN /\ sg_i' = sg_i + 1
                  /\ sg_pc' = "issue"
                  /\ UNCHANGED wlVars
             ELSE /\ GetAllIssueWorklogs(sg_issues[sg_i].worklog, listed, size)
                  /\ sg_pc' = "worklogs"
                  /\ UNCHANGED sg_i
  /\ UNCHANGED <<sg_query, sg_issues, sg_histories, sg_log>>

\* getAllIssueWorklogs has returned or thrown: lines 659-715
SuggestWorklogs ==
  /\ sg_pc = "worklogs"
  /\ wl_pc \in {"done", "failed"}
  /\ LET issue == sg_issues[sg_i]
         tracked == hasTrackedOnDay(wl_worklogs, sg_query)
     IN IF wl_pc = "failed" \/ tracked = "throws"
        THEN /\ sg_pc' = "failed"
             /\ suggestions' = <<>>
             /\ UNCHANGED <<sg_i, sg_log>>
        ELSE /\ sg_log' = Append(sg_log, [issueKey |-> issue.key, worklogs |-> wl_worklogs])
             /\ suggestions' =
                  IF tracked = "yes" THEN suggestions
                  ELSE Append(suggestions,
                              Suggestion(issue, sg_histories, sg_comments, sg_query))
             /\ sg_i' = sg_i + 1
             /\ sg_pc' = "issue"
  /\ wl_pc' = "idle"
  /\ wl_initial' = NoWorklogContainer
  /\ wl_worklogs' = <<>>
  /\ wl_startAt' = 0
  /\ wl_requests' = 0
  /\ wl_remote' = <<>>
  /\ wl_pageSize' = 1
  /\ UNCHANGED <<sg_query, sg_issues, sg_histories, sg_comments>>

InitSuggest ==
  /\ sg_pc = "idle"
  /\ sg_query = [date |-> 0, memberName |-> "", accountId |-> "", existingIssueKeys |-> {}]
  /\ sg_issues = <<>>
  /\ sg_i = 1
  /\ sg_histories = <<>>
  /\ sg_comments = <<>>
  /\ suggestions = <<>>
  /\ sg_log = <<>>

AdaByName == [accountId |-> Undefined, displayName |-> " ADA ", emailAddress |-> Undefined]
\* another account under the same display name
AdaNamesake == [accountId |-> "acc-eve", displayName |-> "Ada", emailAddress |-> "eve@x.io"]

Today == 2

WorklogAdaToday == MkWorklog(510, 3600, At(Today, 600), Ada)
WorklogAdaBefore == MkWorklog(511, 1800, At(Today - 1, 600), Ada)
WorklogBobToday == MkWorklog(512, 900, At(Today, 540), Bob)
WorklogByNameToday == MkWorklog(513, 900, At(Today, 480), AdaByName)
WorklogUnparseable == MkWorklog(514, 900, InvalidDate, Ada)

Embedded(worklogs, total) ==
  [present |-> TRUE, startAt |-> 0, maxResults |-> Len(worklogs), total |-> total,
   worklogs |-> worklogs]

SuggestContainers ==
  { NoWorklogContainer,
    Embedded(<<>>, 0),
    Embedded(<<WorklogAdaToday>>, 1),
    Embedded(<<WorklogBobToday>>, 1),
    Embedded(<<WorklogBobToday>>, 2) }

\* what the endpoint may list for a container that needs follow-up requests
SuggestLists(container) ==
  IF ~container.present \/ Len(container.worklogs) >= container.total THEN { <<>> }
  ELSE { container.worklogs \o <<w>> :
           w \in {WorklogAdaToday, WorklogAdaBefore, WorklogByNameToday, WorklogUnparseable} }
       \cup { container.worklogs }

HistoryLists ==
  { <<>>,
    <<MkHistory(800, At(Today, 560), Ada, <<"status", "assignee">>)>>,
    <<MkHistory(801, At(Today, 500), Bob, <<"summary">>)>>,
    <<MkHistory(802, InvalidDate, Ada, <<>>)>> }

CommentLists ==
  { <<>>,
    <<MkComment(900, At(Today, 505), AdaByName)>>,
    <<MkComment(903, At(Today, 520), AdaNamesake)>>,
    <<MkEditedComment(904, At(Today - 1, 1000), At(Today, 490), Ada)>>,
    <<MkComment(901, At(Today - 1, 100), Ada), MkComment(902, At(Today, 700), Bob)>> }

IssueKeys == <<"OPS-1", "OPS-2">>

MkChangelogIssue(n, histories, container) ==
  [id |-> 10000 + n, key |-> IssueKeys[n], histories |-> histories, worklog |-> container]

IssueLists ==
  UNION { { [n \in 1..len |-> MkChangelogIssue(n, h[n], c[n])] :
              h \in [1..len -> HistoryLists], c \in [1..len -> SuggestContainers] } :
          len \in 0..Len(IssueKeys) }

Queries ==
  { [date |-> Today, memberName |-> "Ada", accountId |-> "acc-ada", existingIssueKeys |-> {}],
    [date |-> Today, memberName |-> "ada", accountId |-> "", existingIssueKeys |-> {"OPS-2"}] }

(***************************************************************************)
(* normalizeWorklog.  The ids of issues and raw work logs are strings.      *)
(***************************************************************************)
\* an optional property of a remote object
FieldOr(object, name, default) ==
  IF name \in DOMAIN object THEN object[name] ELSE default

normalizeWorklog(issue, worklog, teamNames) ==
  [ id |-> WorklogEntryId(issue.id, worklog.id),
    issueId |-> issue.id,
    issueKey |-> issue.key,
    issueSummary |-> issue.summary,
    projectKey |-> FieldOr(FieldOr(issue, "project", <<>>), "key", "UNKNOWN"),
    projectName |-> FieldOr(FieldOr(issue, "project", <<>>), "name", "Unknown project"),
    author |-> OrDefault(worklog.author.displayName,
                         OrDefault(worklog.author.emailAddress, "Unknown user")),
    authorAccountId |-> OrDefault(worklog.author.accountId, "unknown-account"),
    teamNames |-> teamNames,
    started |-> worklog.started,
    seconds |-> worklog.timeSpentSeconds,
    comment |-> normalizeWorklogComment(FieldOr(worklog, "comment", <<>>)) ]

VARIABLES
  nz_pc,      \* "idle", "done"
  nz_inputs,  \* two calls' arguments
  nz_entries  \* and their results

normalizeVars == <<nz_pc, nz_inputs, nz_entries>>

\* two calls of normalizeWorklog
NormalizeTwo(first, second) ==
  /\ nz_pc = "idle"
  /\ nz_inputs' = <<first, second>>
  /\ nz_entries' = << normalizeWorklog(first.issue, first.worklog, first.teamNames),
                      normalizeWorklog(second.issue, second.worklog, second.teamNames) >>
  /\ nz_pc' = "done"

InitNormalize ==
  /\ nz_pc = "idle"
  /\ nz_inputs = <<>>
  /\ nz_entries = <<>>

IdTexts == UNION {[1..n -> {"1", ":"}] : n \in 1..MaxIdLen}

\* an issue and a work log of the first call; those of the second differ from
\* them in every property but, where the ids are chosen equal, the id
FirstCalls ==
  { [ issue |-> [id |-> i, key |-> "OPS-1", summary |-> "Fix outage",
                 project |-> [key |-> "OPS", name |-> "Ops"]],
      worklog |-> MkWorklog(w, 3600, At(1, 600), Ada),
      teamNames |-> <<"core">> ] : i \in IdTexts, w \in IdTexts }

SecondCalls ==
  { [ issue |-> [id |-> i, key |-> "WEB-7", summary |-> "Ship it"],
      worklog |-> MkWorklog(w, 900, At(2, 540), AdaByName),
      teamNames |-> <<>> ] : i \in IdTexts, w \in IdTexts }

(***************************************************************************)
(* fetchJiraWorklogs and POST /api/sync.  The configuration names a team   *)
(* field and no group prefix (the default of JIRA_TEAM_GROUP_PREFIX).       *)
(***************************************************************************)
VARIABLES
  sy_pc,             \* "idle", "search", "issue", "worklogs", "groups", "store", "responded"
  sy_i,              \* the position of the for loop over the issues
  sy_j,              \* the position of the for loop over the work logs of the issue
  sy_entries,        \* entries; the result once the loop over the issues is over
  teamsByAccountId,  \* the Map of getTeamsForAccount
  sy_requests,       \* history: the requests sent to the remote, in order
  sy_response        \* the redirect of the route: "", "login", "disabled", "ok", "error"

syncVars == <<sy_pc, sy_i, sy_j, sy_entries, teamsByAccountId, sy_requests, sy_response>>

Requested(endpoint, about, ok) == [endpoint |-> endpoint, about |-> about, ok |-> ok]

\* [...new Set(names)]
RECURSIVE Unique(_)
Unique(s) ==
  IF s = <<>> THEN <<>>
  ELSE LET front == Unique(SubSeq(s, 1, Len(s) - 1))
       IN IF s[Len(s)] \in Range(front) THEN front ELSE Append(front, s[Len(s)])

\* names.map(trim).filter(Boolean), then the Set
TeamNames(names) == Unique(SelectSeq([i \in DOMAIN names |-> Trim(names[i])], NonEmpty))

\* the value of the team field is absent or an array of strings
getIssueTeamNames(issue) == TeamNames(FieldOr(issue, "team", <<>>))

\* a filter that lets work logs without time pass
BillableOrZero(worklog) == worklog.timeSpentSeconds >= 0

\* if (worklog.timeSpentSeconds > 0)
Billable(worklog) == worklog.timeSpentSeconds > 0

\* a cache test that takes a cached empty team list for a miss
CachedNonEmpty(cache, accountId) ==
  accountId \in DOMAIN cache /\ cache[accountId] # <<>>

\* const cached = teamsByAccountId.get(accountId); if (cached): an array,
\* empty or not, is truthy
Cached(cache, accountId) == accountId \in DOMAIN cache

\* worklog.author?.accountId ?? ""
AccountIdOf(worklog) == OrDefault(worklog.author.accountId, "")

\* entries.push(normalizeWorklog(issue, worklog, teamNames)), on to the next work log
PushEntry(authorTeams) ==
  LET issue == allIssues[sy_i]
      issueTeamNames == getIssueTeamNames(issue)
      teamNames == IF Len(issueTeamNames) > 0 THEN issueTeamNames ELSE authorTeams
  IN /\ sy_entries' = Append(sy_entries, normalizeWorklog(issue, wl_worklogs[sy_j], teamNames))
     /\ sy_j' = sy_j + 1

\* the catch of the route
SyncFails ==
  /\ sy_pc' = "responded"
  /\ sy_response' = "error"

\* the route up to the first await of fetchIssues
SyncPOST(isAuthed) ==
  /\ sy_pc = "idle"
  /\ sy_i' = 1
  /\ sy_j' = 1
  /\ sy_entries' = <<>>
  /\ teamsByAccountId' = <<>>
  /\ sy_requests' = <<>>
  /\ IF ~isAuthed
     THEN /\ sy_pc' = "responded"
          /\ sy_response' = "login"
          /\ UNCHANGED issueVars
     ELSE IF ~supabaseConfigured
     THEN /\ sy_pc' = "responded"
          /\ sy_response' = "disabled"
          /\ UNCHANGED issueVars
     ELSE /\ FetchIssues
          /\ sy_pc' = IF fi_pc' = "done" THEN "issue" ELSE "search"
          /\ UNCHANGED sy_response

\* fetchIssues receives a page
SyncSearchPage(response) ==
  /\ sy_pc = "search"
  /\ FetchIssuesPage(response)
  /\ sy_requests' = Append(sy_requests, Requested("search", "", TRUE))
  /\ sy_pc' = IF fi_pc' = "done" THEN "issue" ELSE "search"
  /\ UNCHANGED <<sy_i, sy_j, sy_entries, teamsByAccountId, sy_response>>

\* a search request fails: fetchIssues and fetchJiraWorklogs throw
SyncSearchFails ==
  /\ sy_pc = "search"
  /\ FetchIssuesPageFails
  /\ sy_requests' = Append(sy_requests, Requested("search", "", FALSE))
  /\ SyncFails
  /\ UNCHANGED <<sy_i, sy_j, sy_entries, teamsByAccountId>>

\* the head of the loop over the issues: on to getAllIssueWorklogs, whose
\* endpoint lists `listed` in pages of `size`, or to the sort and upsertWorklogs
SyncIssue(listed, size) ==
  /\ sy_pc = "issue"
  /\ IF sy_i > Len(allIssues)
     THEN /\ sy_entries' = SortByStarted(sy_entries)
          /\ UpsertStart(sy_entries')
          /\ sy_pc' = "store"
          /\ UNCHANGED wlVars
     ELSE /\ GetAllIssueWorklogs(allIssues[sy_i].worklog, listed, size)
          /\ sy_pc' = "worklogs"
          /\ UNCHANGED <<sy_entries, storeVars, upsertVars>>
  /\ sy_j' = 1
  /\ UNCHANGED <<sy_i, teamsByAccountId, sy_requests, sy_response>>

\* getAllIssueWorklogs receives a follow-up page
SyncWorklogPage ==
  /\ sy_pc = "worklogs"
  /\ FetchWorklogPage(WorklogPageAt(wl_startAt))
  /\ sy_requests' = Append(sy_requests, Requested("worklog", allIssues[sy_i].id, TRUE))
  /\ UNCHANGED <<sy_pc, sy_i, sy_j, sy_entries, teamsByAccountId, sy_response>>

\* a failure of a work-log request that is logged and skips the issue
SyncWorklogPageFailsSkipsIssue ==
  /\ sy_pc = "worklogs"
  /\ wl_pc = "loop"
  /\ sy_requests' = Append(sy_requests, Requested("worklog", allIssues[sy_i].id, FALSE))
  /\ sy_i' = sy_i + 1
  /\ sy_pc' = "issue"
  /\ wl_pc' = "idle"
  /\ wl_initial' = NoWorklogContainer
  /\ wl_worklogs' = <<>>
  /\ wl_startAt' = 0
  /\ wl_requests' = 0
  /\ wl_remote' = <<>>
  /\ wl_pageSize' = 1
  /\ UNCHANGED <<sy_j, sy_entries, teamsByAccountId, sy_response>>

\* a work-log request fails: getAllIssueWorklogs and fetchJiraWorklogs throw
SyncWorklogPageFails ==
  /\ sy_pc = "worklogs"
  /\ FetchWorklogPageFails
  /\ sy_requests' = Append(sy_requests, Requested("worklog", allIssues[sy_i].id, FALSE))
  /\ SyncFails
  /\ UNCHANGED <<sy_i, sy_j, sy_entries, teamsByAccountId>>

\* the loop over the work logs of the issue, up to the await of the group
\* request or to the next work log
SyncWorklog ==
  /\ sy_pc = "worklogs"
  /\ wl_pc = "done"
  /\ IF sy_j > Len(wl_worklogs)
     THEN /\ sy_i' = sy_i + 1
          /\ sy_pc' = "issue"
          /\ wl_pc' = "idle"
          /\ wl_initial' = NoWorklogContainer
          /\ wl_worklogs' = <<>>
          /\ wl_startAt' = 0
          /\ wl_requests' = 0
          /\ wl_remote' = <<>>
          /\ wl_pageSize' = 1
          /\ UNCHANGED <<sy_j, sy_entries>>
     ELSE /\ UNCHANGED <<sy_i, wlVars>>
          /\ LET worklog == wl_worklogs[sy_j]
                 accountId == AccountIdOf(worklog)
             IN IF ~Billable(worklog)
                THEN /\ sy_j' = sy_j + 1
                     /\ UNCHANGED <<sy_pc, sy_entries>>
                ELSE IF accountId = ""
                THEN PushEntry(<<>>) /\ UNCHANGED sy_pc
                ELSE IF Cached(teamsByAccountId, accountId)
                THEN PushEntry(teamsByAccountId[accountId]) /\ UNCHANGED sy_pc
                ELSE /\ sy_pc' = "groups"
                     /\ UNCHANGED <<sy_j, sy_entries>>
  /\ UNCHANGED <<teamsByAccountId, sy_requests, sy_response>>

\* a failing group request that is not caught
SyncGroupsFailAborts ==
  /\ sy_pc = "groups"
  /\ sy_requests' =
       Append(sy_requests, Requested("groups", AccountIdOf(wl_worklogs[sy_j]), FALSE))
  /\ SyncFails
  /\ UNCHANGED <<sy_i, sy_j, sy_entries, teamsByAccountId>>

\* GET /rest/api/3/user/groups fails: the catch of getTeamsForAccount
SyncGroupsFail ==
  /\ sy_pc = "groups"
  /\ LET accountId == AccountIdOf(wl_worklogs[sy_j])
     IN /\ teamsByAccountId' = (accountId :> <<>>) @@ teamsByAccountId
        /\ sy_requests' = Append(sy_requests, Requested("groups", accountId, FALSE))
  /\ PushEntry(<<>>)
  /\ sy_pc' = "worklogs"
  /\ UNCHANGED <<sy_i, sy_response>>

\* GET /rest/api/3/user/groups answers with the groups of the account
SyncGroups(groups) ==
  /\ sy_pc = "groups"
  /\ LET accountId == AccountIdOf(wl_worklogs[sy_j])
         unique == TeamNames(groups)
     IN /\ teamsByAccountId' = (accountId :> unique) @@ teamsByAccountId
        /\ sy_requests' = Append(sy_requests, Requested("groups", accountId, TRUE))
        /\ PushEntry(unique)
  /\ sy_pc' = "worklogs"
  /\ UNCHANGED <<sy_i, sy_response>>

\* upsertWorklogs has returned or thrown
SyncResponds ==
  /\ sy_pc = "store"
  /\ up_pc \in {"done", "failed"}
  /\ sy_pc' = "responded"
  /\ sy_response' = IF up_pc = "done" THEN "ok" ELSE "error"
  /\ UNCHANGED <<sy_i, sy_j, sy_entries, teamsByAccountId, sy_requests>>

InitSync ==
  /\ sy_pc = "idle"
  /\ sy_i = 1
  /\ sy_j = 1
  /\ sy_entries = <<>>
  /\ teamsByAccountId = <<>>
  /\ sy_requests = <<>>
  /\ sy_response = ""

\* ---- what the remote holds during a resync ----
WorklogAdaLong == MkWorklog(<<"7">>, 3600, At(1, 600), Ada)
WorklogBobNone == MkWorklog(<<"8">>, 0, At(1, 660), Bob)
WorklogAdaShort == MkWorklog(<<"7">>, 1800, At(2, 540), Ada)
WorklogNoAccount == MkWorklog(<<"9">>, 900, At(1, 480), AdaByName)
WorklogBobUndone == MkWorklog(<<"6">>, 0 - 600, At(2, 600), Bob)
WorklogBobLate == MkWorklog(<<"5">>, 2700, At(2, 700), Bob)

SyncIssues ==
  << [id |-> <<"1">>, key |-> "OPS-1", summary |-> "Fix outage",
      project |-> [key |-> "OPS", name |-> "Ops"],
      team |-> << <<" ", "core">>, <<"core">> >>,
      worklog |-> Embedded(<<WorklogAdaLong, WorklogBobNone>>, 2)],
     [id |-> <<"2">>, key |-> "WEB-7", summary |-> "Ship it",
      worklog |-> Embedded(<<WorklogAdaShort>>, 4)],
     [id |-> <<"3">>, key |-> "WEB-8", summary |-> "Tidy up",
      worklog |-> NoWorklogContainer] >>

\* what the work-log endpoint may list for an issue at the time of the
\* follow-up requests: the list at the time of the search, or that list
\* behind a work log entered since
SyncLists(issue) ==
  IF issue.id = <<"2">>
  THEN { <<WorklogAdaShort, WorklogBobUndone, WorklogNoAccount, WorklogBobLate>>,
         <<WorklogBobLate, WorklogAdaShort, WorklogBobUndone, WorklogNoAccount>> }
  ELSE { issue.worklog.worklogs }

\* the search pages the remote may answer with; the list of the issues may
\* shift between two requests
SyncPages ==
  { [issues |-> <<SyncIssues[1], SyncIssues[2]>>, maxResults |-> 2, total |-> 3],
    [issues |-> <<SyncIssues[2], SyncIssues[3]>>, maxResults |-> 2, total |-> 3],
    [issues |-> <<SyncIssues[3]>>, maxResults |-> 2, total |-> 3],
    [issues |-> <<SyncIssues[2]>>, maxResults |-> 1, total |-> 1],
    [issues |-> <<>>, maxResults |-> 2, total |-> 0] }

\* what the group endpoint may answer with
GroupLists ==
  { <<>>, << <<"web">> >>, << <<"web", " ">>, <<" ">>, <<"ops">>, <<"web">> >> }

(***************************************************************************)
(* POST /api/suggestions/generate                                          *)
(***************************************************************************)
VARIABLES
  gn_pc,        \* "idle", "myself", "search", "suggest", "responded"
  gn_body,      \* the parsed body
  gn_me,        \* the remote identity, once GET /myself has answered
  gn_status,    \* the status of the response, 0 before it
  gn_requests   \* history: the kinds of requests sent to the remote

generateVars == <<gn_pc, gn_body, gn_me, gn_status, gn_requests>>

NoIdentity == [accountId |-> Undefined, displayName |-> Undefined, emailAddress |-> Undefined]

Get(endpoint) == [method |-> "GET", endpoint |-> endpoint]

\* new Date(`${date}T00:00:00.000Z`)
DayOfDate(date) == IF date = "2026-03-02" THEN At(Today, 0) ELSE InvalidDate

\* an identity test that lets every request with an account id pass
MemberAllowedWithAnyAccount(body, me) == OrDefault(body.accountId, "") # ""

\* memberMatchesName || memberMatchesEmail || memberMatchesAccountId
MemberAllowed(body, me) ==
  LET expectedName == normalizePersonName(me.displayName)
      expectedEmail == normalizePersonName(me.emailAddress)
      expectedAccountId == me.accountId
      requestedMember == normalizePersonName(body.member)
      requestedMemberAccountId == OrDefault(body.accountId, "")
  IN \/ expectedName # "" /\ requestedMember = expectedName
     \/ expectedEmail # "" /\ requestedMember = expectedEmail
     \/ /\ expectedAccountId # ""
        /\ requestedMemberAccountId # ""
        /\ requestedMemberAccountId = expectedAccountId

\* the argument of generateWorklogSuggestions
QueryOf(body) ==
  [ date |-> dayKey(DayOfDate(body.date)),
    memberName |-> body.member,
    accountId |-> OrDefault(body.accountId, ""),
    existingIssueKeys |-> body.existingIssueKeys ]

GenerateAnswers(status) ==
  /\ gn_pc' = "responded"
  /\ gn_status' = status

\* the route up to the await of getJiraCurrentUser
GeneratePOST(isAuthed, parsed, body) ==
  /\ gn_pc = "idle"
  /\ gn_body' = body
  /\ gn_requests' = {}
  /\ IF ~isAuthed THEN GenerateAnswers(401)
     ELSE IF ~parsed \/ body.member = "" \/ body.date = "" THEN GenerateAnswers(400)
     ELSE /\ gn_pc' = "myself"
          /\ UNCHANGED gn_status
  /\ UNCHANGED gn_me

\* GET /rest/api/3/myself fails: the catch of the route
GenerateMyselfFails ==
  /\ gn_pc = "myself"
  /\ gn_requests' = gn_requests \cup {Get("myself")}
  /\ GenerateAnswers(500)
  /\ UNCHANGED <<gn_body, gn_me>>

\* GET /rest/api/3/myself answers: the identity test, then
\* generateWorklogSuggestions up to the first request of fetchIssuesUpdatedOnDay
GenerateMyself(me) ==
  /\ gn_pc = "myself"
  /\ gn_me' = me
  /\ gn_requests' = gn_requests \cup {Get("myself")}
  /\ IF ~MemberAllowed(gn_body, me) THEN GenerateAnswers(403)
     ELSE IF ~DayOfDate(gn_body.date).ok THEN GenerateAnswers(500)
     ELSE /\ gn_pc' = "search"
          /\ UNCHANGED gn_status
  /\ UNCHANGED gn_body

\* a search request of fetchIssuesUpdatedOnDay fails
GenerateSearchFails ==
  /\ gn_pc = "search"
  /\ gn_requests' = gn_requests \cup {Get("search")}
  /\ GenerateAnswers(500)
  /\ UNCHANGED <<gn_body, gn_me>>

\* fetchIssuesUpdatedOnDay has read `issues`
GenerateSearch(issues) ==
  /\ gn_pc = "search"
  /\ gn_requests' = gn_requests \cup {Get("search")}
  /\ GenerateWorklogSuggestions(QueryOf(gn_body), issues)
  /\ gn_pc' = "suggest"
  /\ UNCHANGED <<gn_body, gn_me, gn_status>>

\* one step of generateWorklogSuggestions, with the requests it sends
SuggestRequests ==
  \/ /\ SuggestIssue
     /\ UNCHANGED gn_requests
  \/ /\ sg_pc = "comments"
     /\ \E comments \in CommentLists, size \in 1..MaxPage :
          \E listed \in SuggestLists(sg_issues[sg_i].worklog) :
            SuggestComments(comments, listed, size)
     /\ gn_requests' = gn_requests \cup {Get("comment")}
  \/ /\ sg_pc = "worklogs"
     /\ \/ FetchWorklogPage(WorklogPageAt(wl_startAt))
        \/ FetchWorklogPageFails
     /\ gn_requests' = gn_requests \cup {Get("worklog")}
     /\ UNCHANGED suggestVars
  \/ /\ SuggestWorklogs
     /\ UNCHANGED gn_requests

\* a generateWorklogSuggestions that books the suggestions it returns
GenerateSuggestsAndBooks ==
  /\ gn_pc = "suggest"
  /\ SuggestRequests
  /\ jiraWorklogs' =
       IF sg_pc' = "done"
       THEN jiraWorklogs \cup {suggestions'[k].issueKey : k \in DOMAIN suggestions'}
       ELSE jiraWorklogs
  /\ UNCHANGED <<gn_pc, gn_body, gn_me, gn_status, storeVars, upsertVars,
                 supabaseConfigured, cr_pc, cr_body, cr_created, cr_before, cr_response>>

\* generateWorklogSuggestions, from the issues of the day to its return
GenerateSuggests ==
  /\ gn_pc = "suggest"
  /\ SuggestRequests
  /\ UNCHANGED <<gn_pc, gn_body, gn_me, gn_status, storeVars, upsertVars, createVars>>

\* generateWorklogSuggestions has returned or thrown
GenerateResponds ==
  /\ gn_pc = "suggest"
  /\ sg_pc \in {"done", "failed"}
  /\ GenerateAnswers(IF sg_pc = "done" THEN 200 ELSE 500)
  /\ UNCHANGED <<gn_body, gn_me, gn_requests>>

InitGenerate ==
  /\ gn_pc = "idle"
  /\ gn_body = [member |-> "", accountId |-> Undefined, date |-> "", existingIssueKeys |-> {}]
  /\ gn_me = NoIdentity
  /\ gn_status = 0
  /\ gn_requests = {}

GenerateBodies ==
  [ member : {"", " ", "Ada", " ADA ", "Bob", "ada@x.io"},
    accountId : {Undefined, "acc-ada", "acc-bob"},
    date : {"", "2026-03-02", "2026-13-45"},
    existingIssueKeys : {{}} ]

\* getJiraCurrentUser: the properties the remote leaves out are ""
Identities ==
  { Ada,
    [accountId |-> "acc-ada", displayName |-> "", emailAddress |-> ""],
    [accountId |-> "", displayName |-> "Bob", emailAddress |-> ""] }

(***************************************************************************)
(* The paged reads of fetchIssuesUpdatedOnDay and of                        *)
(* fetchIssueCommentsByMemberOnDate.  The items gathered are counted.       *)
(***************************************************************************)
VARIABLES
  pg_pc,       \* "idle", "search", "comments", "done", "failed"
  pg_startAt,  \* startAt
  pg_count,    \* allIssues.length or comments.length
  pg_fetches   \* history: the requests sent so far

pagedVars == <<pg_pc, pg_startAt, pg_count, pg_fetches>>

\* while (startAt < 300), const maxResults = 50
searchCeiling == 300
searchMaxResults == 50
\* while (startAt < 400), const maxResults = 100
commentCeiling == 400
commentMaxResults == 100

\* the loop goes on after a page: no break, and the condition of the while
PagedLoopGoesOn(startAt, response, ceiling) ==
  /\ ~(startAt >= response.total \/ response.items = 0)
  /\ startAt < ceiling

\* fetchIssuesUpdatedOnDay or fetchIssueCommentsByMemberOnDate up to the
\* first await
PagedRead(kind) ==
  /\ pg_pc = "idle"
  /\ pg_startAt' = 0
  /\ pg_count' = 0
  /\ pg_fetches' = 0
  /\ pg_pc' = kind

\* one request answered with a page
PagedReadPage(kind, ceiling, response) ==
  /\ pg_pc = kind
  /\ pg_fetches < MaxFetches
  /\ pg_fetches' = pg_fetches + 1
  /\ pg_count' = pg_count + response.items
  /\ pg_startAt' = pg_startAt + response.maxResults
  /\ pg_pc' = IF PagedLoopGoesOn(pg_startAt', response, ceiling) THEN kind ELSE "done"

\* one request answered with a non-2xx status: jiraGet throws
PagedReadFails ==
  /\ pg_pc \in {"search", "comments"}
  /\ pg_fetches < MaxFetches
  /\ pg_fetches' = pg_fetches + 1
  /\ pg_pc' = "failed"
  /\ UNCHANGED <<pg_startAt, pg_count>>

InitPaged ==
  /\ pg_pc = "idle"
  /\ pg_startAt = 0
  /\ pg_count = 0
  /\ pg_fetches = 0

\* what the remote may answer to a request for `requested` items: as many
\* items as it likes, under the page size and the total it likes to report
PagedResponses(requested) ==
  [ items : {0, 1, requested},
    maxResults : {0, 10, requested},
    total : {0, 1, 25, 1000} ]

(***************************************************************************)
(* readAllWorklogs.  The table is not written during the read; rd_stored   *)
(* holds its rows in ascending order of started, rows of equal started in  *)
(* the order of their ids.                                                  *)
(***************************************************************************)
VARIABLES
  rd_pc,      \* "idle", "page", "done", "failed"
  rd_stored,  \* the rows of the table
  rd_from,    \* from
  allRows,    \* allRows
  rd_result   \* the entries returned, once rd_pc = "done"

readVars == <<rd_pc, rd_stored, rd_from, allRows, rd_result>>

pageSize == 1000

\* the row the table holds for an entry
StoredRow(entry) == [c \in BaseColumns \cup schema |-> toRow(entry)[c]]

\* order("started"): the store may answer a query with the rows of equal
\* started in another order; here with two neighbours exchanged
Exchanged(rows, p) ==
  [i \in DOMAIN rows |-> IF i = p THEN rows[p + 1] ELSE IF i = p + 1 THEN rows[p] ELSE rows[i]]

StoreOrders(rows) ==
  {rows} \cup
  { Exchanged(rows, p) :
      p \in {q \in {1, pageSize} : q < Len(rows) /\ rows[q].started = rows[q + 1].started} }

\* the select that succeeds against the table: the full one, the one
\* without author_account_id and team_names, or the one without comment too
SelectedColumns ==
  IF NewColumns \subseteq schema THEN BaseColumns \cup NewColumns
  ELSE IF "comment" \in schema THEN BaseColumns \cup {"comment"}
  ELSE BaseColumns

\* a row of the answer, with the columns that were not selected filled in
ReadRow(row) ==
  [c \in BaseColumns \cup NewColumns |->
     IF c \in SelectedColumns THEN row[c] ELSE ColumnDefaults[c]]

\* .range(from, to) on the rows in the order the store chose
RangeOf(ordered, from, to) ==
  LET rows == SubSeq(ordered, from + 1, Min(to + 1, Len(ordered)))
  IN [i \in DOMAIN rows |-> ReadRow(rows[i])]

fromRow(row) ==
  [ id |-> row.id,
    issueId |-> row.issue_id,
    issueKey |-> row.issue_key,
    issueSummary |-> row.issue_summary,
    projectKey |-> row.project_key,
    projectName |-> row.project_name,
    author |-> row.author,
    authorAccountId |-> row.author_account_id,
    teamNames |-> row.team_names,
    started |-> row.started,
    seconds |-> row.seconds,
    comment |-> row.comment ]

\* the call up to the first await
ReadAllWorklogs ==
  /\ rd_pc = "idle"
  /\ rd_from' = 0
  /\ allRows' = <<>>
  /\ rd_pc' = "page"
  /\ UNCHANGED <<rd_stored, rd_result>>

\* one pass of the loop whose last select succeeds, the store answering in
\* the order `ordered`
ReadPage(ordered) ==
  /\ rd_pc = "page"
  /\ LET rows == RangeOf(ordered, rd_from, rd_from + pageSize - 1)
     IN /\ allRows' = allRows \o rows
        /\ IF Len(rows) < pageSize
           THEN /\ rd_pc' = "done"
                /\ rd_result' = [i \in DOMAIN allRows' |-> fromRow(allRows'[i])]
                /\ UNCHANGED rd_from
           ELSE /\ rd_from' = rd_from + pageSize
                /\ UNCHANGED <<rd_pc, rd_result>>
  /\ UNCHANGED rd_stored

\* a select fails with an error that names none of the newer columns
ReadPageFails ==
  /\ rd_pc = "page"
  /\ rd_pc' = "failed"
  /\ UNCHANGED <<rd_stored, rd_from, allRows, rd_result>>

IdleRead ==
  /\ rd_pc = "idle"
  /\ rd_stored = <<>>
  /\ rd_from = 0
  /\ allRows = <<>>
  /\ rd_result = <<>>

\* tables of n rows: all of the same started, or of n different ones
StoredTables ==
  { [i \in 1..n |-> StoredRow(MkEntry(i, IF tied THEN 1 ELSE i))] :
      n \in {0, 2, pageSize, pageSize + 1}, tied \in BOOLEAN }

(***************************************************************************)
(* Create followed by resyncs: the remote lists the work logs it created.  *)
(***************************************************************************)
\* the id under which the remote holds the issue of the key of ValidBody
RemoteIssueId == <<"10001">>

\* the work logs of that issue as the remote lists them, entered by the
\* account of the API token
ListedWorklogs ==
  [n \in 1..Cardinality(jiraWorklogs) |->
     LET w == CHOOSE x \in jiraWorklogs : x.id = CreatedIds[n]
     IN [ id |-> w.id, timeSpentSeconds |-> w.timeSpentSeconds, started |-> w.started,
          author |-> Ada, comment |-> w.comment ]]

RemoteIssue ==
  [ id |-> RemoteIssueId, key |-> ValidBody.issueKey, summary |-> ValidBody.issueSummary,
    project |-> [key |-> ValidBody.projectKey, name |-> ValidBody.projectName],
    worklog |-> Embedded(ListedWorklogs, Len(ListedWorklogs)) ]

\* the answer to the issue search
RemoteSearchPage == [issues |-> <<RemoteIssue>>, maxResults |-> 1, total |-> 1]

\* requests of a client: with the issue id the remote uses, and with another
ResyncBodies == { ValidBody, [ValidBody EXCEPT !.issueId = <<"10002">>] }

\* the route has answered; the next request to it may come
SyncReturns ==
  /\ sy_pc = "responded"
  /\ sy_pc' = "idle"
  /\ UNCHANGED <<sy_i, sy_j, sy_entries, teamsByAccountId, sy_requests, sy_response>>

(***************************************************************************)
(* Two runs of fetchJiraWorklogs at once, each in the loop over the work   *)
(* logs of one issue; the runs interleave at the awaits of the group       *)
(* requests.                                                                *)
(***************************************************************************)
VARIABLES
  tw_pc,       \* per run: "idle", "worklogs", "groups", "done"
  tw_j,        \* per run: the position of the loop over the work logs
  tw_entries,  \* per run: entries
  tw_maps,     \* the Maps of the runs' getTeamsForAccount
  tw_lookups   \* history: the group requests answered, in order

twoVars == <<tw_pc, tw_j, tw_entries, tw_maps, tw_lookups>>

Runs == {1, 2}

\* the issue of the runs, without a team field, and its work logs
TwoIssue == SyncIssues[2]
TwoWorklogs == <<WorklogAdaLong, WorklogBobLate, WorklogAdaShort, WorklogNoAccount>>

\* one Map for all runs
MapOfModule(run) == 1

\* const teamsByAccountId = new Map(): every call has its own
MapOf(run) == run

\* the call up to the loop over the work logs
TwoFetch(run) ==
  /\ tw_pc[run] = "idle"
  /\ tw_pc' = [tw_pc EXCEPT ![run] = "worklogs"]
  /\ tw_j' = [tw_j EXCEPT ![run] = 1]
  /\ tw_entries' = [tw_entries EXCEPT ![run] = <<>>]
  /\ tw_maps' = [tw_maps EXCEPT ![MapOf(run)] = <<>>]
  /\ UNCHANGED tw_lookups

\* entries.push(normalizeWorklog(issue, worklog, teamNames)), on to the next work log
TwoPush(run, authorTeams) ==
  LET issueTeamNames == getIssueTeamNames(TwoIssue)
      teamNames == IF Len(issueTeamNames) > 0 THEN issueTeamNames ELSE authorTeams
  IN /\ tw_entries' =
          [tw_entries EXCEPT ![run] =
             Append(@, normalizeWorklog(TwoIssue, TwoWorklogs[tw_j[run]], teamNames))]
     /\ tw_j' = [tw_j EXCEPT ![run] = @ + 1]

\* the loop over the work logs, up to the await of the group request, to the
\* next work log, or to the sort
TwoWorklog(run) ==
  /\ tw_pc[run] = "worklogs"
  /\ IF tw_j[run] > Len(TwoWorklogs)
     THEN /\ tw_entries' = [tw_entries EXCEPT ![run] = SortByStarted(@)]
          /\ tw_pc' = [tw_pc EXCEPT ![run] = "done"]
          /\ UNCHANGED tw_j
     ELSE LET worklog == TwoWorklogs[tw_j[run]]
              accountId == AccountIdOf(worklog)
              map == tw_maps[MapOf(run)]
          IN IF ~Billable(worklog)
             THEN /\ tw_j' = [tw_j EXCEPT ![run] = @ + 1]
                  /\ UNCHANGED <<tw_pc, tw_entries>>
             ELSE IF accountId = ""
             THEN TwoPush(run, <<>>) /\ UNCHANGED tw_pc
             ELSE IF Cached(map, accountId)
             THEN TwoPush(run, map[accountId]) /\ UNCHANGED tw_pc
             ELSE /\ tw_pc' = [tw_pc EXCEPT ![run] = "groups"]
                  /\ UNCHANGED <<tw_j, tw_entries>>
  /\ UNCHANGED <<tw_maps, tw_lookups>>

\* the group request of the run is answered with `groups`
TwoGroups(run, groups) ==
  /\ tw_pc[run] = "groups"
  /\ LET accountId == AccountIdOf(TwoWorklogs[tw_j[run]])
         unique == TeamNames(groups)
     IN /\ tw_maps' = [tw_maps EXCEPT ![MapOf(run)] = (accountId :> unique) @@ @]
        /\ tw_lookups' = Append(tw_lookups, [run |-> run, accountId |-> accountId,
                                             ok |-> TRUE, teams |-> unique])
        /\ TwoPush(run, unique)
  /\ tw_pc' = [tw_pc EXCEPT ![run] = "worklogs"]

\* the group request of the run fails: the catch of getTeamsForAccount
TwoGroupsFail(run) ==
  /\ tw_pc[run] = "groups"
  /\ LET accountId == AccountIdOf(TwoWorklogs[tw_j[run]])
     IN /\ tw_maps' = [tw_maps EXCEPT ![MapOf(run)] = (accountId :> <<>>) @@ @]
        /\ tw_lookups' = Append(tw_lookups, [run |-> run, accountId |-> accountId,
                                             ok |-> FALSE, teams |-> <<>>])
  /\ TwoPush(run, <<>>)
  /\ tw_pc' = [tw_pc EXCEPT ![run] = "worklogs"]

IdleTwo ==
  /\ tw_pc = [run \in Runs |-> "idle"]
  /\ tw_j = [run \in Runs |-> 1]
  /\ tw_entries = [run \in Runs |-> <<>>]
  /\ tw_maps = [run \in Runs |-> <<>>]
  /\ tw_lookups = <<>>

\* what the group endpoint may answer with while two runs are under way
TwoGroupLists == { <<>>, << <<"web">> >> }

(***************************************************************************)
(* The batches handed to upsertWorklogs.                                   *)
(***************************************************************************)
Versions == {1, 2}
SmallEntries == {MkEntry(i, v) : i \in SmallIds, v \in Versions}
SeqsUpTo(S, n) == UNION {[1..k -> S] : k \in 0..n}
SmallBatches == SeqsUpTo(SmallEntries, MaxBatch)

BigBatch(n, v) == [i \in 1..n |-> MkEntry(i, v)]
BigBatches ==
  { BigBatch(chunkSize, 2),
    BigBatch(2 * chunkSize + 1, 1),
    Append(BigBatch(2 * chunkSize, 1), MkEntry(1, 2)),
    <<MkEntry(chunkSize + 1, 1)>> \o BigBatch(chunkSize + 1, 2) }

(***************************************************************************)
(* Specifications.                                                         *)
(***************************************************************************)
InitUpsert ==
  /\ table = <<>>
  /\ up_pc = "idle"
  /\ entries = <<>>
  /\ dedupedEntries = <<>>
  /\ index = 0
  /\ error = NoError
  /\ writes = <<>>
  /\ repeated = FALSE

\* the parts of the program a specification leaves alone
IdleStore == schema = NewColumns /\ InitUpsert
IdleIssues ==
  /\ cfg_maxIssues = 0
  /\ remote = ArbitraryRemote
  /\ fi_pc = "idle"
  /\ allIssues = <<>>
  /\ fi_startAt = 0
  /\ fi_pages = <<>>

vars == <<storeVars, upsertVars, wlVars, issueVars, createVars, estimateVars, suggestVars, commentVars, normalizeVars, syncVars, generateVars, pagedVars, readVars, twoVars>>

\* ---- upsertWorklogs on small batches, against every table layout ----
Init ==
  /\ schema \in SUBSET NewColumns
  /\ InitUpsert
  /\ InitWorklogs
  /\ IdleIssues
  /\ IdleCreate
  /\ InitEstimate
  /\ InitSuggest
  /\ InitComment
  /\ InitNormalize
  /\ InitSync
  /\ InitGenerate
  /\ InitPaged
  /\ IdleRead
  /\ IdleTwo

Next ==
  \/ \E es \in SmallBatches : UpsertStart(es) /\ UNCHANGED <<wlVars, issueVars, createVars, estimateVars, suggestVars, commentVars, normalizeVars, syncVars, generateVars, pagedVars, readVars, twoVars>>
  \/ WriteFull /\ UNCHANGED <<wlVars, issueVars, createVars, estimateVars, suggestVars, commentVars, normalizeVars, syncVars, generateVars, pagedVars, readVars, twoVars>>
  \/ WriteSemiLegacy /\ UNCHANGED <<wlVars, issueVars, createVars, estimateVars, suggestVars, commentVars, normalizeVars, syncVars, generateVars, pagedVars, readVars, twoVars>>
  \/ WriteLegacy /\ UNCHANGED <<wlVars, issueVars, createVars, estimateVars, suggestVars, commentVars, normalizeVars, syncVars, generateVars, pagedVars, readVars, twoVars>>

Spec == Init /\ [][Next]_vars

\* ---- upsertWorklogs on batches of more than one chunk ----
InitChunks ==
  /\ schema \in {NewColumns, {"author_account_id", "team_names"}}
  /\ InitUpsert
  /\ InitWorklogs
  /\ IdleIssues
  /\ IdleCreate
  /\ InitEstimate
  /\ InitSuggest
  /\ InitComment
  /\ InitNormalize
  /\ InitSync
  /\ InitGenerate
  /\ InitPaged
  /\ IdleRead
  /\ IdleTwo

NextChunks ==
  \/ \E es \in BigBatches : UpsertStart(es) /\ UNCHANGED <<wlVars, issueVars, createVars, estimateVars, suggestVars, commentVars, normalizeVars, syncVars, generateVars, pagedVars, readVars, twoVars>>
  \/ WriteFull /\ UNCHANGED <<wlVars, issueVars, createVars, estimateVars, suggestVars, commentVars, normalizeVars, syncVars, generateVars, pagedVars, readVars, twoVars>>
  \/ WriteSemiLegacy /\ UNCHANGED <<wlVars, issueVars, createVars, estimateVars, suggestVars, commentVars, normalizeVars, syncVars, generateVars, pagedVars, readVars, twoVars>>
  \/ WriteLegacy /\ UNCHANGED <<wlVars, issueVars, createVars, estimateVars, suggestVars, commentVars, normalizeVars, syncVars, generateVars, pagedVars, readVars, twoVars>>

SpecChunks == InitChunks /\ [][NextChunks]_vars

\* ---- getAllIssueWorklogs against a remote that answers as it likes ----
WorklogCatalog ==
  { MkWorklog(500, 3600, At(1, 600), Ada), MkWorklog(501, 0, At(2, 540), Bob) }

\* what the per-issue endpoint may list: the work logs may have changed since
\* the search embedded its page
WorklogLists == UNION {[1..n -> WorklogCatalog] : n \in 0..MaxTotal}

WorklogContainers ==
  {NoWorklogContainer} \cup
  [ present : {TRUE},
    startAt : {0},
    maxResults : {0, MaxPage},
    total : 0..MaxTotal,
    worklogs : UNION {[1..n -> WorklogCatalog] : n \in 0..MaxPage} ]

InitWorklogsSpec ==
  /\ IdleStore
  /\ InitWorklogs
  /\ IdleIssues
  /\ IdleCreate
  /\ InitEstimate
  /\ InitSuggest
  /\ InitComment
  /\ InitNormalize
  /\ InitSync
  /\ InitGenerate
  /\ InitPaged
  /\ IdleRead
  /\ IdleTwo

AnswerWorklogRequest ==
  FetchWorklogPage(WorklogPageAt(wl_startAt))
    /\ UNCHANGED <<storeVars, upsertVars, issueVars, createVars, estimateVars, suggestVars, commentVars, normalizeVars, syncVars, generateVars, pagedVars, readVars, twoVars>>

NextWorklogs ==
  \/ \E initial \in WorklogContainers, listed \in WorklogLists, size \in 1..MaxPage :
       GetAllIssueWorklogs(initial, listed, size)
         /\ UNCHANGED <<storeVars, upsertVars, issueVars, createVars, estimateVars, suggestVars, commentVars, normalizeVars, syncVars, generateVars, pagedVars, readVars, twoVars>>
  \/ AnswerWorklogRequest
  \/ FetchWorklogPageFails /\ UNCHANGED <<storeVars, upsertVars, issueVars, createVars, estimateVars, suggestVars, commentVars, normalizeVars, syncVars, generateVars, pagedVars, readVars, twoVars>>

SpecWorklogs == InitWorklogsSpec /\ [][NextWorklogs]_vars

\* the remote answers every request, so a pending await is resumed
FairSpecWorklogs ==
  /\ SpecWorklogs
  /\ WF_vars(AnswerWorklogRequest)

\* ---- fetchIssues ----
InitIssuesSpec ==
  /\ IdleStore
  /\ InitWorklogs
  /\ InitIssues
  /\ IdleCreate
  /\ InitEstimate
  /\ InitSuggest
  /\ InitComment
  /\ InitNormalize
  /\ InitSync
  /\ InitGenerate
  /\ InitPaged
  /\ IdleRead
  /\ IdleTwo

NextIssues ==
  \/ FetchIssues /\ UNCHANGED <<storeVars, upsertVars, wlVars, createVars, estimateVars, suggestVars, commentVars, normalizeVars, syncVars, generateVars, pagedVars, readVars, twoVars>>
  \/ \E response \in SearchResponses(fi_startAt) :
       FetchIssuesPage(response) /\ UNCHANGED <<storeVars, upsertVars, wlVars, createVars, estimateVars, suggestVars, commentVars, normalizeVars, syncVars, generateVars, pagedVars, readVars, twoVars>>
  \/ FetchIssuesPageFails /\ UNCHANGED <<storeVars, upsertVars, wlVars, createVars, estimateVars, suggestVars, commentVars, normalizeVars, syncVars, generateVars, pagedVars, readVars, twoVars>>

SpecIssues == InitIssuesSpec /\ [][NextIssues]_vars

\* ---- the create entry point, against every table layout ----
InitCreateSpec ==
  /\ schema \in SUBSET NewColumns
  /\ InitUpsert
  /\ InitWorklogs
  /\ IdleIssues
  /\ InitCreate
  /\ InitEstimate
  /\ InitSuggest
  /\ InitComment
  /\ InitNormalize
  /\ InitSync
  /\ InitGenerate
  /\ InitPaged
  /\ IdleRead
  /\ IdleTwo

NextCreate ==
  \/ \E isAuthed \in BOOLEAN, parsed \in BOOLEAN, body \in Bodies :
       POST(isAuthed, parsed, body) /\ UNCHANGED <<wlVars, issueVars, estimateVars, suggestVars, commentVars, normalizeVars, syncVars, generateVars, pagedVars, readVars, twoVars>>
  \/ JiraPostCreated /\ UNCHANGED <<wlVars, issueVars, estimateVars, suggestVars, commentVars, normalizeVars, syncVars, generateVars, pagedVars, readVars, twoVars>>
  \/ JiraPostRejected /\ UNCHANGED <<wlVars, issueVars, estimateVars, suggestVars, commentVars, normalizeVars, syncVars, generateVars, pagedVars, readVars, twoVars>>
  \/ (cr_pc = "storing" /\ WriteFull) /\ UNCHANGED <<wlVars, issueVars, createVars, estimateVars, suggestVars, commentVars, normalizeVars, syncVars, generateVars, pagedVars, readVars, twoVars>>
  \/ (cr_pc = "storing" /\ WriteSemiLegacy) /\ UNCHANGED <<wlVars, issueVars, createVars, estimateVars, suggestVars, commentVars, normalizeVars, syncVars, generateVars, pagedVars, readVars, twoVars>>
  \/ (cr_pc = "storing" /\ WriteLegacy) /\ UNCHANGED <<wlVars, issueVars, createVars, estimateVars, suggestVars, commentVars, normalizeVars, syncVars, generateVars, pagedVars, readVars, twoVars>>
  \/ CreateResponds /\ UNCHANGED <<wlVars, issueVars, estimateVars, suggestVars, commentVars, normalizeVars, syncVars, generateVars, pagedVars, readVars, twoVars>>

SpecCreate == InitCreateSpec /\ [][NextCreate]_vars

\* ---- estimateSuggestionHours on every input of the bounds ----
InitEstimateSpec ==
  /\ IdleStore
  /\ InitWorklogs
  /\ IdleIssues
  /\ IdleCreate
  /\ InitEstimate
  /\ InitSuggest
  /\ InitComment
  /\ InitNormalize
  /\ InitSync
  /\ InitGenerate
  /\ InitPaged
  /\ IdleRead
  /\ IdleTwo

NextEstimate ==
  \E fieldKeys \in FieldKeyLists, historyCount \in 0..MaxHistoryCount,
     commentCount \in 0..MaxCommentCount :
    EstimateSuggestion(fieldKeys, historyCount, commentCount)
      /\ UNCHANGED <<storeVars, upsertVars, wlVars, issueVars, createVars, suggestVars, commentVars, normalizeVars, syncVars, generateVars, pagedVars, readVars, twoVars>>

SpecEstimate == InitEstimateSpec /\ [][NextEstimate]_vars

\* ---- generateWorklogSuggestions over one day's issues ----
InitSuggestSpec ==
  /\ IdleStore
  /\ InitWorklogs
  /\ IdleIssues
  /\ IdleCreate
  /\ InitEstimate
  /\ InitSuggest
  /\ InitComment
  /\ InitNormalize
  /\ InitSync
  /\ InitGenerate
  /\ InitPaged
  /\ IdleRead
  /\ IdleTwo

NextSuggest ==
  \/ \E query \in Queries, issues \in IssueLists :
       GenerateWorklogSuggestions(query, issues)
         /\ UNCHANGED <<storeVars, upsertVars, issueVars, createVars, estimateVars, commentVars, normalizeVars, syncVars, generateVars, pagedVars, readVars, twoVars>>
  \/ SuggestIssue /\ UNCHANGED <<storeVars, upsertVars, issueVars, createVars, estimateVars, commentVars, normalizeVars, syncVars, generateVars, pagedVars, readVars, twoVars>>
  \/ /\ sg_pc = "comments"
     /\ \E comments \in CommentLists, size \in 1..MaxPage :
          \E listed \in SuggestLists(sg_issues[sg_i].worklog) :
            SuggestComments(comments, listed, size)
     /\ UNCHANGED <<storeVars, upsertVars, issueVars, createVars, estimateVars, commentVars, normalizeVars, syncVars, generateVars, pagedVars, readVars, twoVars>>
  \/ (sg_pc = "worklogs" /\ AnswerWorklogRequest)
  \/ (sg_pc = "worklogs" /\ FetchWorklogPageFails)
       /\ UNCHANGED <<storeVars, upsertVars, issueVars, createVars, estimateVars, suggestVars, commentVars, normalizeVars, syncVars, generateVars, pagedVars, readVars, twoVars>>
  \/ SuggestWorklogs /\ UNCHANGED <<storeVars, upsertVars, issueVars, createVars, estimateVars, commentVars, normalizeVars, syncVars, generateVars, pagedVars, readVars, twoVars>>

SpecSuggest == InitSuggestSpec /\ [][NextSuggest]_vars

\* ---- a comment's round trip through the rich-text format ----
InitCommentSpec ==
  /\ IdleStore
  /\ InitWorklogs
  /\ IdleIssues
  /\ IdleCreate
  /\ InitEstimate
  /\ InitSuggest
  /\ InitComment
  /\ InitNormalize
  /\ InitSync
  /\ InitGenerate
  /\ InitPaged
  /\ IdleRead
  /\ IdleTwo

NextComment ==
  \E comment \in Comments :
    CommentRoundTrip(comment)
      /\ UNCHANGED <<storeVars, upsertVars, wlVars, issueVars, createVars, estimateVars,
                     suggestVars, normalizeVars, syncVars, generateVars, pagedVars, readVars, twoVars>>

SpecComment == InitCommentSpec /\ [][NextComment]_vars

\* ---- normalizeWorklog on pairs of calls ----
InitNormalizeSpec ==
  /\ IdleStore
  /\ InitWorklogs
  /\ IdleIssues
  /\ IdleCreate
  /\ InitEstimate
  /\ InitSuggest
  /\ InitComment
  /\ InitNormalize
  /\ InitSync
  /\ InitGenerate
  /\ InitPaged
  /\ IdleRead
  /\ IdleTwo

NextNormalize ==
  /\ nz_pc = "idle"
  /\ \E first \in FirstCalls, second \in SecondCalls :
       NormalizeTwo(first, second)
         /\ UNCHANGED <<storeVars, upsertVars, wlVars, issueVars, createVars, estimateVars,
                     suggestVars, commentVars, syncVars, generateVars, pagedVars, readVars, twoVars>>

SpecNormalize == InitNormalizeSpec /\ [][NextNormalize]_vars

\* ---- POST /api/sync against a remote whose lists shift ----
InitSyncSpec ==
  /\ IdleStore
  /\ InitWorklogs
  /\ cfg_maxIssues = MaxIssuesCfg
  /\ remote = ArbitraryRemote
  /\ fi_pc = "idle"
  /\ allIssues = <<>>
  /\ fi_startAt = 0
  /\ fi_pages = <<>>
  /\ InitCreate
  /\ InitEstimate
  /\ InitSuggest
  /\ InitComment
  /\ InitNormalize
  /\ InitSync
  /\ InitGenerate
  /\ InitPaged
  /\ IdleRead
  /\ IdleTwo

SyncOthers == <<createVars, estimateVars, suggestVars, commentVars, normalizeVars, generateVars, pagedVars, readVars, twoVars>>

NextSync ==
  \/ \E isAuthed \in BOOLEAN :
       SyncPOST(isAuthed) /\ UNCHANGED <<storeVars, upsertVars, wlVars, SyncOthers>>
  \/ \E response \in SyncPages :
       SyncSearchPage(response) /\ UNCHANGED <<storeVars, upsertVars, wlVars, SyncOthers>>
  \/ SyncSearchFails /\ UNCHANGED <<storeVars, upsertVars, wlVars, SyncOthers>>
  \/ /\ sy_pc = "issue"
     /\ \E listed \in (IF sy_i > Len(allIssues) THEN {<<>>} ELSE SyncLists(allIssues[sy_i])) :
          SyncIssue(listed, 2)
     /\ UNCHANGED <<issueVars, SyncOthers>>
  \/ SyncWorklogPage /\ UNCHANGED <<storeVars, upsertVars, issueVars, SyncOthers>>
  \/ SyncWorklogPageFails /\ UNCHANGED <<storeVars, upsertVars, issueVars, SyncOthers>>
  \/ SyncWorklog /\ UNCHANGED <<storeVars, upsertVars, issueVars, SyncOthers>>
  \/ \E groups \in GroupLists :
       SyncGroups(groups) /\ UNCHANGED <<storeVars, upsertVars, wlVars, issueVars, SyncOthers>>
  \/ SyncGroupsFail /\ UNCHANGED <<storeVars, upsertVars, wlVars, issueVars, SyncOthers>>
  \/ sy_pc = "store" /\ WriteFull /\ UNCHANGED <<wlVars, issueVars, SyncOthers, syncVars>>
  \/ SyncResponds /\ UNCHANGED <<storeVars, upsertVars, wlVars, issueVars, SyncOthers>>

SpecSync == InitSyncSpec /\ [][NextSync]_vars

\* ---- POST /api/suggestions/generate over days with at most one issue ----
InitGenerateSpec ==
  /\ IdleStore
  /\ InitWorklogs
  /\ IdleIssues
  /\ IdleCreate
  /\ InitEstimate
  /\ InitSuggest
  /\ InitComment
  /\ InitNormalize
  /\ InitSync
  /\ InitGenerate
  /\ InitPaged
  /\ IdleRead
  /\ IdleTwo

GenerateOthers == <<storeVars, upsertVars, issueVars, createVars, estimateVars, commentVars, normalizeVars, syncVars, pagedVars, readVars, twoVars>>

NextGenerate ==
  \/ \E isAuthed \in BOOLEAN, parsed \in BOOLEAN, body \in GenerateBodies :
       GeneratePOST(isAuthed, parsed, body) /\ UNCHANGED <<wlVars, suggestVars, GenerateOthers>>
  \/ \E me \in Identities :
       GenerateMyself(me) /\ UNCHANGED <<wlVars, suggestVars, GenerateOthers>>
  \/ GenerateMyselfFails /\ UNCHANGED <<wlVars, suggestVars, GenerateOthers>>
  \/ \E issues \in {l \in IssueLists : Len(l) <= 1} :
       GenerateSearch(issues) /\ UNCHANGED <<GenerateOthers>>
  \/ GenerateSearchFails /\ UNCHANGED <<wlVars, suggestVars, GenerateOthers>>
  \/ GenerateSuggests /\ UNCHANGED <<issueVars, estimateVars, commentVars, normalizeVars, syncVars, pagedVars, readVars, twoVars>>
  \/ GenerateResponds /\ UNCHANGED <<wlVars, suggestVars, GenerateOthers>>

SpecGenerate == InitGenerateSpec /\ [][NextGenerate]_vars

\* ---- the two paged reads against a remote that reports what it likes ----
InitPagedSpec ==
  /\ IdleStore
  /\ InitWorklogs
  /\ IdleIssues
  /\ IdleCreate
  /\ InitEstimate
  /\ InitSuggest
  /\ InitComment
  /\ InitNormalize
  /\ InitSync
  /\ InitGenerate
  /\ InitPaged
  /\ IdleRead
  /\ IdleTwo

PagedOthers ==
  <<storeVars, upsertVars, wlVars, issueVars, createVars, estimateVars, suggestVars,
    commentVars, normalizeVars, syncVars, generateVars, readVars, twoVars>>

NextPaged ==
  \/ \E kind \in {"search", "comments"} : PagedRead(kind) /\ UNCHANGED PagedOthers
  \/ \E response \in PagedResponses(searchMaxResults) :
       PagedReadPage("search", searchCeiling, response) /\ UNCHANGED PagedOthers
  \/ \E response \in PagedResponses(commentMaxResults) :
       PagedReadPage("comments", commentCeiling, response) /\ UNCHANGED PagedOthers
  \/ PagedReadFails /\ UNCHANGED PagedOthers

SpecPaged == InitPagedSpec /\ [][NextPaged]_vars

\* ---- readAllWorklogs on tables of up to two pages ----
InitReadSpec ==
  /\ schema \in SUBSET NewColumns
  /\ InitUpsert
  /\ InitWorklogs
  /\ IdleIssues
  /\ IdleCreate
  /\ InitEstimate
  /\ InitSuggest
  /\ InitComment
  /\ InitNormalize
  /\ InitSync
  /\ InitGenerate
  /\ InitPaged
  /\ rd_pc = "idle"
  /\ rd_stored \in StoredTables
  /\ rd_from = 0
  /\ allRows = <<>>
  /\ rd_result = <<>>
  /\ IdleTwo

ReadOthers ==
  <<storeVars, upsertVars, wlVars, issueVars, createVars, estimateVars, suggestVars,
    commentVars, normalizeVars, syncVars, generateVars, pagedVars, twoVars>>

NextRead ==
  \/ ReadAllWorklogs /\ UNCHANGED ReadOthers
  \/ /\ rd_pc = "page"
     /\ \E ordered \in StoreOrders(rd_stored) : ReadPage(ordered)
     /\ UNCHANGED ReadOthers
  \/ ReadPageFails /\ UNCHANGED ReadOthers

SpecRead == InitReadSpec /\ [][NextRead]_vars

\* ---- create-worklog requests and resyncs, one after the other ----
InitResyncSpec ==
  /\ schema \in SUBSET NewColumns
  /\ InitUpsert
  /\ InitWorklogs
  /\ cfg_maxIssues = MaxIssuesCfg
  /\ remote = ArbitraryRemote
  /\ fi_pc = "idle"
  /\ allIssues = <<>>
  /\ fi_startAt = 0
  /\ fi_pages = <<>>
  /\ InitCreate
  /\ InitEstimate
  /\ InitSuggest
  /\ InitComment
  /\ InitNormalize
  /\ InitSync
  /\ InitGenerate
  /\ InitPaged
  /\ IdleRead
  /\ IdleTwo

ResyncOthers ==
  <<estimateVars, suggestVars, commentVars, normalizeVars, generateVars, pagedVars, readVars, twoVars>>

NextResync ==
  \/ /\ sy_pc \in {"idle", "responded"}
     /\ \E body \in ResyncBodies : POST(TRUE, TRUE, body)
     /\ UNCHANGED <<wlVars, issueVars, syncVars, ResyncOthers>>
  \/ JiraPostCreated /\ UNCHANGED <<wlVars, issueVars, syncVars, ResyncOthers>>
  \/ JiraPostRejected /\ UNCHANGED <<wlVars, issueVars, syncVars, ResyncOthers>>
  \/ CreateResponds /\ UNCHANGED <<wlVars, issueVars, syncVars, ResyncOthers>>
  \/ /\ cr_pc \in {"idle", "responded"}
     /\ \E isAuthed \in BOOLEAN : SyncPOST(isAuthed)
     /\ UNCHANGED <<storeVars, upsertVars, wlVars, createVars, ResyncOthers>>
  \/ SyncSearchPage(RemoteSearchPage)
       /\ UNCHANGED <<storeVars, upsertVars, wlVars, createVars, ResyncOthers>>
  \/ SyncSearchFails /\ UNCHANGED <<storeVars, upsertVars, wlVars, createVars, ResyncOthers>>
  \/ /\ sy_pc = "issue"
     /\ SyncIssue(IF sy_i > Len(allIssues) THEN <<>> ELSE allIssues[sy_i].worklog.worklogs, 1)
     /\ UNCHANGED <<issueVars, createVars, ResyncOthers>>
  \/ SyncWorklog /\ UNCHANGED <<storeVars, upsertVars, issueVars, createVars, ResyncOthers>>
  \/ \E groups \in GroupLists :
       SyncGroups(groups)
         /\ UNCHANGED <<storeVars, upsertVars, wlVars, issueVars, createVars, ResyncOthers>>
  \/ SyncGroupsFail
       /\ UNCHANGED <<storeVars, upsertVars, wlVars, issueVars, createVars, ResyncOthers>>
  \/ /\ cr_pc = "storing" \/ sy_pc = "store"
     /\ WriteFull
     /\ UNCHANGED <<wlVars, issueVars, createVars, syncVars, ResyncOthers>>
  \/ /\ cr_pc = "storing" \/ sy_pc = "store"
     /\ WriteSemiLegacy
     /\ UNCHANGED <<wlVars, issueVars, createVars, syncVars, ResyncOthers>>
  \/ /\ cr_pc = "storing" \/ sy_pc = "store"
     /\ WriteLegacy
     /\ UNCHANGED <<wlVars, issueVars, createVars, syncVars, ResyncOthers>>
  \/ SyncResponds /\ UNCHANGED <<storeVars, upsertVars, wlVars, issueVars, createVars, ResyncOthers>>
  \/ SyncReturns /\ UNCHANGED <<storeVars, upsertVars, wlVars, issueVars, createVars, ResyncOthers>>

SpecResync == InitResyncSpec /\ [][NextResync]_vars

\* ---- two runs of fetchJiraWorklogs, interleaved ----
InitTwoSpec ==
  /\ IdleStore
  /\ InitWorklogs
  /\ IdleIssues
  /\ IdleCreate
  /\ InitEstimate
  /\ InitSuggest
  /\ InitComment
  /\ InitNormalize
  /\ InitSync
  /\ InitGenerate
  /\ InitPaged
  /\ IdleRead
  /\ IdleTwo

TwoOthers ==
  <<storeVars, upsertVars, wlVars, issueVars, createVars, estimateVars, suggestVars,
    commentVars, normalizeVars, syncVars, generateVars, pagedVars, readVars>>

NextTwo ==
  \/ \E run \in Runs : TwoFetch(run) /\ UNCHANGED TwoOthers
  \/ \E run \in Runs : TwoWorklog(run) /\ UNCHANGED TwoOthers
  \/ \E run \in Runs, groups \in TwoGroupLists : TwoGroups(run, groups) /\ UNCHANGED TwoOthers
  \/ \E run \in Runs : TwoGroupsFail(run) /\ UNCHANGED TwoOthers

SpecTwo == InitTwoSpec /\ [][NextTwo]_vars

(***************************************************************************)
(* Properties of upsertWorklogs.                                           *)
(***************************************************************************)
\* the entry of each id that comes last in a batch
RECURSIVE LatestById(_, _, _)
LatestById(es, lo, hi) ==
  IF lo > hi THEN <<>>
  ELSE IF lo = hi THEN es[lo].id :> es[lo]
  ELSE LET mid == (lo + hi) \div 2
       IN LatestById(es, mid + 1, hi) @@ LatestById(es, lo, mid)

Latest(es) == LatestById(es, 1, Len(es))

\* the row a write of the given shape carries for an entry
Shaped(shape, entry) ==
  IF shape = "full" THEN
    [ id |-> entry.id, issue_id |-> entry.issueId, issue_key |-> entry.issueKey,
      issue_summary |-> entry.issueSummary, project_key |-> entry.projectKey,
      project_name |-> entry.projectName, author |-> entry.author,
      author_account_id |-> entry.authorAccountId, team_names |-> entry.teamNames,
      started |-> entry.started, seconds |-> entry.seconds, comment |-> entry.comment ]
  ELSE IF shape = "semi" THEN
    [ id |-> entry.id, issue_id |-> entry.issueId, issue_key |-> entry.issueKey,
      issue_summary |-> entry.issueSummary, project_key |-> entry.projectKey,
      project_name |-> entry.projectName, author |-> entry.author,
      started |-> entry.started, seconds |-> entry.seconds, comment |-> entry.comment ]
  ELSE
    [ id |-> entry.id, issue_id |-> entry.issueId, issue_key |-> entry.issueKey,
      issue_summary |-> entry.issueSummary, project_key |-> entry.projectKey,
      project_name |-> entry.projectName, author |-> entry.author,
      started |-> entry.started, seconds |-> entry.seconds ]

\* C1, first part: when a call against a table with the full column set has
\* completed, every id of the batch has its row in the table (the table is
\* keyed by id: one row per id), and the row carries the field values of the
\* entry of that id that came last in the batch.
C1_LatestValues ==
  (up_pc = "done" /\ schema = NewColumns) =>
    \A id \in DOMAIN Latest(entries) :
      /\ id \in DOMAIN table
      /\ table[id] = Shaped("full", Latest(entries)[id])

\* C1, second part: no step changes the row of an id that is not in the batch
\* of the call in progress, so a row keeps the values of the most recent
\* upsert that contained its id.
C1_OtherRowsKept ==
  \A id \in DOMAIN table :
    id \notin DOMAIN Latest(entries') =>
      id \in DOMAIN table' /\ table'[id] = table[id]

\* C1, third part: a call that repeats the batch of the call that completed
\* before it leaves the table as that call left it.
C1_RepeatChangesNothing == repeated => table' = table

\* C1: after any sequence of upsertWorklogs calls against a store with the
\* full column set the table holds one row per upserted id, the row carries
\* the values of the most recent upsert of that id, and upserting the same
\* batch twice leaves the table as after upserting it once.
C1_IdempotentUpsert ==
  /\ []C1_LatestValues
  /\ [][C1_OtherRowsKept /\ C1_RepeatChangesNothing]_vars

\* a repeated call has completed against the full column set, on a batch that
\* names an id twice, beside a row of an earlier call
C1_Witness ==
  /\ up_pc = "done"
  /\ schema = NewColumns
  /\ repeated
  /\ Len(entries) > Cardinality(DOMAIN Latest(entries))
  /\ DOMAIN table # DOMAIN Latest(entries)

\* C2: of several entries of one batch with the same id only the last one in
\* input order is sent to the store: every row of every write request of the
\* call is the row of the last entry of its id, no request carries an id
\* twice, and requests of different chunks carry disjoint ids (a fallback
\* re-sends the entries of its own chunk in a reduced shape).
C2_LastEntrySent ==
  LET latest == Latest(entries)
      ids == [k \in DOMAIN writes |-> RowIds(writes[k].rows)]
  IN \A k \in DOMAIN writes :
       /\ \A i \in DOMAIN writes[k].rows :
            LET row == writes[k].rows[i]
            IN /\ row.id \in DOMAIN latest
               /\ row = Shaped(writes[k].shape, latest[row.id])
       /\ Cardinality(ids[k]) = Len(writes[k].rows)
       /\ \A j \in DOMAIN writes :
            writes[j].index # writes[k].index => ids[j] \cap ids[k] = {}

\* a batch that names an id twice, far enough apart for two chunks, has been
\* written in two chunks
C2_Witness ==
  /\ up_pc = "done"
  /\ Len(entries) > Len(dedupedEntries)
  /\ \E j, k \in DOMAIN writes : writes[j].index # writes[k].index

\* C6: chunks of at most chunkSize rows are written one after another in
\* input order: the first request is for the first chunk, a request follows a
\* failed request of the same chunk or a successful request of the chunk
\* before; when the call has failed, the last request failed, the rows of
\* every chunk before it are in the table, and no later chunk was requested.
C6_SequentialChunks ==
  /\ \A k \in DOMAIN writes :
       /\ Len(writes[k].rows) <= chunkSize
       /\ Len(writes[k].rows) =
            Min(chunkSize, Len(dedupedEntries) - writes[k].index)
       /\ \A i \in DOMAIN writes[k].rows :
            writes[k].rows[i].id = dedupedEntries[writes[k].index + i].id
       /\ IF k = 1
          THEN writes[k].index = 0
          ELSE \/ /\ writes[k].index = writes[k - 1].index
                  /\ writes[k - 1].error.failed
               \/ /\ writes[k].index = writes[k - 1].index + chunkSize
                  /\ ~writes[k - 1].error.failed
  /\ up_pc = "failed" =>
       /\ writes # <<>>
       /\ writes[Len(writes)].error.failed
       /\ \A i \in 1..writes[Len(writes)].index :
            /\ dedupedEntries[i].id \in DOMAIN table
            /\ table[dedupedEntries[i].id].seconds = dedupedEntries[i].seconds
            /\ table[dedupedEntries[i].id].author = dedupedEntries[i].author
  /\ (up_pc \in {"done", "failed"} /\ writes # <<>> /\ writes[Len(writes)].error.failed)
       => up_pc = "failed"

\* the second of three chunks has failed: the first one is written, the third
\* one was never requested
C6_Witness ==
  /\ up_pc = "failed"
  /\ index = chunkSize
  /\ Len(dedupedEntries) > 2 * chunkSize
  /\ \E k \in DOMAIN writes : writes[k].index = 0 /\ ~writes[k].error.failed

\* C7: a reduced-shape write of a chunk is attempted only after the preceding
\* write of the same chunk failed with an error message that names a newer
\* column the table lacks; a write error that names none of the newer columns
\* is the last write of the call, and the call fails.
C7_FallbackOnlyOnColumnError ==
  \A k \in DOMAIN writes :
    /\ writes[k].shape \in {"semi", "legacy"} =>
         /\ k > 1
         /\ writes[k - 1].index = writes[k].index
         /\ writes[k - 1].shape = (IF writes[k].shape = "semi" THEN "full" ELSE "semi")
         /\ writes[k - 1].error.failed
         /\ \E c \in NewColumns \ schema : c \in writes[k - 1].error.message
    /\ (writes[k].error.failed /\ writes[k].error.message \cap NewColumns = {}) =>
         /\ k = Len(writes)
         /\ up_pc = "failed"

\* a call has gone through both fallbacks
C7_Witness ==
  /\ up_pc = "done"
  /\ \E k \in DOMAIN writes : writes[k].shape = "legacy"
  /\ \E k \in DOMAIN writes : writes[k].shape = "semi"

\* the store of the scenario: its table lacks column comment, and
\* every failure of the call names that column
RejectsOnlyComment ==
  /\ "comment" \notin schema
  /\ \A k \in DOMAIN writes :
       writes[k].error.failed => "comment" \in writes[k].error.message

\* C8: against a store that rejects every write that carries column comment,
\* naming the column, a call ends without error, the accepted write carries no
\* comment, and the persisted row of a record with a non-empty comment has the
\* record's id, author and seconds and no comment field.
C8_CommentDroppedByFallback ==
  (RejectsOnlyComment /\ up_pc \in {"done", "failed"}) =>
    /\ up_pc = "done"
    /\ \A k \in DOMAIN writes :
         ~writes[k].error.failed => "comment" \notin RowColumns(writes[k].rows)
    /\ \A id \in DOMAIN Latest(entries) :
         Latest(entries)[id].comment # <<>> =>
           /\ id \in DOMAIN table
           /\ table[id].id = id
           /\ table[id].author = Latest(entries)[id].author
           /\ table[id].seconds = Latest(entries)[id].seconds
           /\ "comment" \notin DOMAIN table[id]

\* a record with a non-empty comment has been persisted through the fallbacks
C8_Witness ==
  /\ RejectsOnlyComment
  /\ up_pc = "done"
  /\ Len(writes) = 3
  /\ \E i \in DOMAIN entries :
       entries[i].comment # <<>> /\ Latest(entries)[entries[i].id] = entries[i]

\* C25: after a successful call the persisted row of every record carries
\* the record's value in every column the table has.
C25_ExistingColumnsPersisted ==
  up_pc = "done" =>
    \A id \in DOMAIN Latest(entries) :
      /\ id \in DOMAIN table
      /\ \A c \in BaseColumns \cup schema :
           table[id][c] = toRow(Latest(entries)[id])[c]

(***************************************************************************)
(* Properties of the pagination drivers.                                   *)
(***************************************************************************)
\* C3: every call of getAllIssueWorklogs that requests follow-up pages returns,
\* whatever pages the remote answers with (a page without work logs included).
C3_ListingTerminates ==
  (wl_pc = "loop") ~> (wl_pc # "loop")

CeilDiv(n, k) == (n + k - 1) \div k

\* C4: against a remote that always reports total = N >= 1 and serves pages of
\* size k, with cfg.maxIssues >= N, fetchIssues is done after exactly
\* ceil(N/k) requests (never more, and while it loops fewer) and returns the N
\* issues; when the first page holds no issue it is done after one request.
C4_PagesFetched ==
  /\ (remote.kind = "regular" /\ remote.total >= 1 /\ cfg_maxIssues >= remote.total) =>
       /\ Len(fi_pages) <= CeilDiv(remote.total, remote.size)
       /\ fi_pc = "loop" => Len(fi_pages) < CeilDiv(remote.total, remote.size)
       /\ fi_pc = "done" =>
            /\ Len(fi_pages) = CeilDiv(remote.total, remote.size)
            /\ allIssues = [i \in 1..remote.total |-> MkIssue(i)]
  /\ (fi_pages # <<>> /\ fi_pages[1] = 0) =>
       /\ fi_pc = "done"
       /\ Len(fi_pages) = 1

\* a regular remote whose last page is not full has been read to the end
C4_Witness ==
  /\ fi_pc = "done"
  /\ remote.kind = "regular"
  /\ cfg_maxIssues >= remote.total
  /\ remote.total > remote.size
  /\ remote.total % remote.size # 0
  /\ Len(allIssues) = remote.total

(***************************************************************************)
(* Properties of the create entry point.                                   *)
(***************************************************************************)
\* C5: when the create entry point answers its caller with a failure, the
\* remote holds no work log it did not hold when the request came in.
C5_FailureCreatesNothing ==
  (cr_pc = "responded" /\ cr_response.status # 200) => jiraWorklogs = cr_before

(***************************************************************************)
(* Properties of the estimate.                                             *)
(***************************************************************************)
\* C10: for every history-entry count, list of changed fields and comment
\* count, estimateSuggestionHours returns a multiple of 0.25 between 0.25 and
\* 6 hours, and the suggestion's seconds are a multiple of 900 between 900
\* and 21600.
C10_QuarterHoursInRange ==
  est_pc = "done" =>
    /\ est_hours \in 25..600
    /\ est_hours % 25 = 0
    /\ est_seconds \in 900..21600
    /\ est_seconds % 900 = 0

\* an estimate whose sum is not a quarter of an hour has been rounded
C10_Witness ==
  /\ est_pc = "done"
  /\ est_historyCount = 1
  /\ est_fieldKeys = <<"summary">>
  /\ est_commentCount = 0
  /\ est_hours = 125
  /\ est_seconds = 4500

(***************************************************************************)
(* Properties of generateWorklogSuggestions.                               *)
(***************************************************************************)
\* a work log that starts on the query's day and is authored by its actor:
\* the same account id when both sides carry one, else the same name
ByActorOnDay(worklog) ==
  LET accountId == OrDefault(worklog.author.accountId, "")
      name == OrDefault(worklog.author.displayName,
                        OrDefault(worklog.author.emailAddress, ""))
  IN /\ worklog.started.ok
     /\ worklog.started.day = sg_query.date
     /\ IF accountId # "" /\ sg_query.accountId # ""
        THEN accountId = sg_query.accountId
        ELSE /\ normalizePersonName(name) # ""
             /\ normalizePersonName(name) = normalizePersonName(sg_query.memberName)

\* C9: no suggestion is produced for an issue one of whose work logs, on the
\* embedded page or on a follow-up page, starts on the target day and is
\* authored by the target actor, whatever histories and comments match.
C9_NoSuggestionWhenTracked ==
  \A k \in DOMAIN sg_log :
    (\E j \in DOMAIN sg_log[k].worklogs : ByActorOnDay(sg_log[k].worklogs[j])) =>
      \A n \in DOMAIN suggestions : suggestions[n].issueKey # sg_log[k].issueKey

\* the run is over; an issue with a matching history entry was passed over
\* for a work log of the actor that came on a follow-up page, while another
\* issue got its suggestion
C9_Witness ==
  /\ sg_pc = "done"
  /\ Len(suggestions) = 1
  /\ \E k \in DOMAIN sg_log :
       /\ Len(sg_log[k].worklogs) = 2
       /\ ~ByActorOnDay(sg_log[k].worklogs[1])
       /\ ByActorOnDay(sg_log[k].worklogs[2])
       /\ \E i \in DOMAIN sg_issues :
            /\ sg_issues[i].key = sg_log[k].issueKey
            /\ \E h \in DOMAIN sg_issues[i].histories :
                 RelevantHistory(sg_issues[i].histories[h], sg_query)
       /\ suggestions[1].issueKey # sg_log[k].issueKey

(***************************************************************************)
(* Properties of the rich-text round trip.                                 *)
(***************************************************************************)
\* the text of s from position i on, every run of white space between two
\* other characters written as one space and the white space at the end left
\* out
RECURSIVE CollapsedFrom(_, _)
CollapsedFrom(s, i) ==
  IF \A j \in i..Len(s) : s[j] \in WhiteSpace THEN <<>>
  ELSE IF s[i] \notin WhiteSpace THEN <<s[i]>> \o CollapsedFrom(s, i + 1)
  ELSE IF s[i - 1] \notin WhiteSpace THEN <<" ">> \o CollapsedFrom(s, i + 1)
  ELSE CollapsedFrom(s, i + 1)

FirstOther(s) == CHOOSE i \in DOMAIN s : s[i] \notin WhiteSpace /\ \A j \in 1..(i - 1) : s[j] \in WhiteSpace

\* C20: for every string with a character that is not white space,
\* normalizeWorklogComment(toAdfComment(s)) is s with every run of white space
\* (line breaks included) collapsed to one space and the white space at both
\* ends removed.
C20_RoundTripCollapses ==
  (cm_pc = "done" /\ \E i \in DOMAIN cm_input : cm_input[i] \notin WhiteSpace) =>
    cm_output = CollapsedFrom(cm_input, FirstOther(cm_input))

\* a comment of two lines that starts with white space has gone through
C20_Witness ==
  /\ cm_pc = "done"
  /\ cm_input = <<" ", "a", "LF", "b">>
  /\ Len(cm_document) = 2
  /\ cm_output = <<"a", " ", "b">>

\* C21: the document toAdfComment returns has at least one paragraph, and
\* every paragraph consists of one text node with a non-empty text.
C21_DocumentNeverEmpty ==
  cm_pc = "done" =>
    /\ Len(cm_document) >= 1
    /\ \A p \in DOMAIN cm_document :
         Len(cm_document[p]) = 1 /\ cm_document[p][1] # <<>>

\* a comment of blank lines only has become the placeholder paragraph
C21_Witness ==
  /\ cm_pc = "done"
  /\ cm_input = <<" ", "LF", "CR", "LF">>
  /\ cm_document = << << <<"Arbeit am Ticket dokumentiert.">> >> >>

(***************************************************************************)
(* Properties of normalizeWorklog.                                         *)
(***************************************************************************)
\* C12: the id of a record depends on the issue id and the raw work-log id
\* only: two calls with the same issue id and the same raw id give the same
\* id whatever else differs, and two calls with the same raw id and different
\* issue ids give different ids.
C12_IdFromIssueAndRawId ==
  nz_pc = "done" =>
    LET sameIssue == nz_inputs[1].issue.id = nz_inputs[2].issue.id
        sameRaw == nz_inputs[1].worklog.id = nz_inputs[2].worklog.id
    IN /\ (sameIssue /\ sameRaw) => nz_entries[1].id = nz_entries[2].id
       /\ (~sameIssue /\ sameRaw) => nz_entries[1].id # nz_entries[2].id

\* the same raw id under two issue ids of which one extends the other by the
\* separator
C12_Witness ==
  /\ nz_pc = "done"
  /\ nz_inputs[1].issue.id = <<"1">>
  /\ nz_inputs[2].issue.id = <<"1", ":">>
  /\ nz_inputs[1].worklog.id = nz_inputs[2].worklog.id
  /\ nz_entries[1].id # nz_entries[2].id

(***************************************************************************)
(* Properties of fetchJiraWorklogs and of POST /api/sync.                  *)
(***************************************************************************)
\* fetchJiraWorklogs has returned; sy_entries is its result
SyncFetched == sy_pc = "store" \/ (sy_pc = "responded" /\ up_pc # "idle")

RequestsAbout(endpoint, about) ==
  {k \in DOMAIN sy_requests :
     sy_requests[k].endpoint = endpoint /\ sy_requests[k].about = about}

FailedRequests(endpoints) ==
  {k \in DOMAIN sy_requests :
     sy_requests[k].endpoint \in endpoints /\ ~sy_requests[k].ok}

\* the team names the issue of an entry carries
IssueTeamsOf(entry) ==
  getIssueTeamNames(
    SyncIssues[CHOOSE n \in DOMAIN SyncIssues : SyncIssues[n].id = entry.issueId])

\* C11: the records a full resync returns have pairwise distinct ids,
\* whatever pages the remote answered with.
C11_DistinctIds ==
  SyncFetched =>
    \A a, b \in DOMAIN sy_entries : a # b => sy_entries[a].id # sy_entries[b].id

\* C13: no record gathered by fetchJiraWorklogs has seconds <= 0.
C13_NoRecordWithoutTime ==
  \A k \in DOMAIN sy_entries : sy_entries[k].seconds > 0

\* the loop has just passed a work log with negative time and holds records
C13_Witness ==
  /\ sy_pc = "worklogs"
  /\ wl_pc = "done"
  /\ sy_j > 1
  /\ wl_worklogs[sy_j - 1].timeSpentSeconds < 0
  /\ Len(sy_entries) > 0

\* C14: within one run the group endpoint is requested at most once per
\* account id and never for the empty account id; a record of an issue
\* without team names carries the cached team list of its account.
C14_OneLookupPerAccount ==
  /\ RequestsAbout("groups", "") = {}
  /\ \A k \in DOMAIN sy_requests :
       sy_requests[k].endpoint = "groups" =>
         Cardinality(RequestsAbout("groups", sy_requests[k].about)) = 1
  /\ \A k \in DOMAIN sy_entries :
       LET entry == sy_entries[k] IN
       entry.teamNames =
         IF IssueTeamsOf(entry) # <<>> THEN IssueTeamsOf(entry)
         ELSE IF entry.authorAccountId = "unknown-account" THEN <<>>
         ELSE teamsByAccountId[entry.authorAccountId]

\* a run that completed after the one lookup of an account failed and two
\* later work logs of the account, and one without account id, were emitted
C14_Witness ==
  /\ sy_response = "ok"
  /\ \E k \in RequestsAbout("groups", "acc-ada") : ~sy_requests[k].ok
  /\ Cardinality({k \in DOMAIN sy_entries :
                    sy_entries[k].authorAccountId = "acc-ada"}) >= 3
  /\ \E k \in DOMAIN sy_entries : sy_entries[k].authorAccountId = "unknown-account"

\* C15: a failing group lookup does not fail the run: a run that ended in
\* an error has a failed search or work-log request or a failed store write;
\* a record of the account is emitted, and the records of the account carry
\* no team names unless their issue carries some.
C15_LookupFailureIsSwallowed ==
  /\ (sy_response = "error" /\ up_pc # "failed") =>
        Len(sy_requests) \in FailedRequests({"search", "worklog"})
  /\ \A f \in FailedRequests({"groups"}) :
       LET accountId == sy_requests[f].about IN
       /\ \E k \in DOMAIN sy_entries : sy_entries[k].authorAccountId = accountId
       /\ \A k \in DOMAIN sy_entries :
            sy_entries[k].authorAccountId = accountId =>
              sy_entries[k].teamNames = IssueTeamsOf(sy_entries[k])

\* a run that completed although the lookup of an account failed, with a
\* record of the account that has no team names and one that has the issue's
C15_Witness ==
  /\ sy_response = "ok"
  /\ \E f \in FailedRequests({"groups"}) : sy_requests[f].about = "acc-ada"
  /\ \E k \in DOMAIN sy_entries :
       sy_entries[k].authorAccountId = "acc-ada" /\ sy_entries[k].teamNames = <<>>
  /\ \E k \in DOMAIN sy_entries :
       sy_entries[k].authorAccountId = "acc-ada" /\ sy_entries[k].teamNames # <<>>

\* C19: a failed search or work-log request is the last request of the
\* resync: the route has answered with the error, upsertWorklogs was not
\* called and the table is as it was before the resync.
C19_FirstFailureAborts ==
  \A f \in FailedRequests({"search", "worklog"}) :
    /\ f = Len(sy_requests)
    /\ sy_pc = "responded"
    /\ sy_response = "error"
    /\ up_pc = "idle"
    /\ writes = <<>>
    /\ table = <<>>

\* a work-log request failed after records had been gathered and a group
\* lookup made
C19_Witness ==
  /\ sy_response = "error"
  /\ Len(sy_requests) \in FailedRequests({"worklog"})
  /\ Len(sy_entries) > 0
  /\ RequestsAbout("groups", "acc-ada") # {}

(***************************************************************************)
(* Properties of POST /api/suggestions/generate.                           *)
(***************************************************************************)
\* the body fails input validation: a required field is missing or the date
\* is no date
FailsValidation(body) ==
  body.member = "" \/ body.date = "" \/ ~DayOfDate(body.date).ok

\* C16: a request whose body fails input validation is answered with no
\* request sent to the remote and no store call made.
C16_RejectedBeforeAnyCall ==
  (gn_pc = "responded" /\ gn_status # 401 /\ FailsValidation(gn_body)) =>
    /\ gn_requests = {}
    /\ up_pc = "idle"
    /\ table = <<>>

\* the requested member is not the remote identity, in the words of the claim
NotTheIdentity(body, me) ==
  /\ normalizePersonName(body.member) # normalizePersonName(me.displayName)
  /\ normalizePersonName(body.member) # normalizePersonName(me.emailAddress)
  /\ OrDefault(body.accountId, "") # me.accountId

C18_SuggestionsOnlyRead ==
  /\ [](\A r \in gn_requests : r.method = "GET")
  /\ [][(sg_pc # "idle" \/ sg_pc' # "idle") =>
          /\ jiraWorklogs' = jiraWorklogs
          /\ table' = table
          /\ up_pc' = up_pc
          /\ writes' = writes]_vars

\* a run that returned a suggestion after comment and work-log requests
C18_Witness ==
  /\ gn_status = 200
  /\ suggestions # <<>>
  /\ {Get("comment"), Get("worklog")} \subseteq gn_requests

\* the author of an item is the actor of the query: by account id when both
\* carry one, by display name otherwise
ByActor(author) ==
  LET accountId == OrDefault(author.accountId, "")
      name == normalizePersonName(OrDefault(author.displayName,
                                            OrDefault(author.emailAddress, "")))
  IN IF accountId # "" /\ sg_query.accountId # ""
     THEN accountId = sg_query.accountId
     ELSE name # "" /\ name = normalizePersonName(sg_query.memberName)

\* C24: a history entry or comment counts as the actor's by account id when
\* the query and the item carry one, and by name only otherwise: no item
\* with another account id than the query's is matched.
C24_AccountBeforeName ==
  /\ \A k \in DOMAIN sg_histories : ByActor(sg_histories[k].author)
  /\ \A k \in DOMAIN sg_comments : ByActor(sg_comments[k].author)

\* the author of an item is the remote identity: by account id when both
\* carry one, by name or email otherwise
ByIdentity(author, me) ==
  LET accountId == OrDefault(author.accountId, "")
      name == normalizePersonName(OrDefault(author.displayName,
                                            OrDefault(author.emailAddress, "")))
  IN IF accountId # "" /\ me.accountId # ""
     THEN accountId = me.accountId
     ELSE /\ name # ""
          /\ name \in {normalizePersonName(me.displayName),
                       normalizePersonName(me.emailAddress)}

\* C23: the suggestion the suggest entry point returns is built from history
\* entries and comments of the remote identity only.
C23_OnlyOwnActivity ==
  (gn_status = 200 /\ Len(suggestions) = 1) =>
    /\ \A k \in DOMAIN sg_histories : ByIdentity(sg_histories[k].author, gn_me)
    /\ \A k \in DOMAIN sg_comments : ByIdentity(sg_comments[k].author, gn_me)

(***************************************************************************)
(* Properties of the paged reads.                                          *)
(***************************************************************************)
\* C22: the change-history search sends at most 6 requests and the comment
\* listing at most 4, whatever the remote reports: a read that is about to
\* send its next request has sent fewer than 6, or 4, before.
C22_FetchesCapped ==
  /\ pg_pc = "search" => pg_fetches < 6
  /\ pg_pc = "comments" => pg_fetches < 4

(***************************************************************************)
(* Properties of readAllWorklogs.                                           *)
(***************************************************************************)
\* C26: readAllWorklogs stops at the first page of fewer than 1000 rows and
\* returns every stored row exactly once.
C26_EveryRowOnce ==
  rd_pc = "done" =>
    /\ rd_from = pageSize * (Len(rd_stored) \div pageSize)
    /\ Len(rd_result) = Len(rd_stored)
    /\ {rd_result[i].id : i \in DOMAIN rd_result} = {rd_stored[i].id : i \in DOMAIN rd_stored}

(***************************************************************************)
(* Properties of the start of a suggestion.                                 *)
(***************************************************************************)
StartedOnTargetDay ==
  \A k \in DOMAIN suggestions :
    suggestions[k].started.ok /\ suggestions[k].started.day = sg_query.date

\* a step into "failed" is taken from a request that failed
FailsOnRequestOnly ==
  sg_pc' = "failed" => sg_pc = "failed" \/ (sg_pc = "worklogs" /\ wl_pc = "failed")

\* C27: every suggestion returned for the day D starts on the day D, and
\* generation fails only when a request to the remote failed, never on a
\* timestamp that does not parse.
C27_StartedOnTargetDay == []StartedOnTargetDay /\ [][FailsOnRequestOnly]_vars
(***************************************************************************)
(* Properties of the hours of a suggestion.                                 *)
(***************************************************************************)
\* the hours, in hundredths, for h history entries that changed the fields
\* `fields`, and c comments
HoursByCounts(h, fields, c) ==
  Min(600, roundToQuarter(75 + Min(175, 35 * h) + Min(100, 15 * Cardinality(fields))
                             + Min(100, 25 * c)
                             + (IF "status" \in fields \/ "resolution" \in fields
                                THEN 25 ELSE 0)))

\* the suggestion appended last was built from sg_histories and sg_comments
JustSuggested ==
  /\ sg_pc = "issue"
  /\ sg_i > 1
  /\ suggestions # <<>>
  /\ suggestions[Len(suggestions)].issueKey = sg_issues[sg_i - 1].key

\* C28: the hours of a suggestion are 0.75 + min(1.75, 0.35 h) + min(1, 0.15 f)
\* + min(1, 0.25 c), plus 0.25 for a status or resolution change, rounded to
\* the quarter and capped at 6, with h the matching history entries, f the
\* distinct fields they changed and c the matching comments.
C28_HoursByCounts ==
  JustSuggested =>
    suggestions[Len(suggestions)].seconds =
      SuggestionSeconds(HoursByCounts(Len(sg_histories), Range(FlatItems(sg_histories)),
                                      Len(sg_comments)))

(***************************************************************************)
(* Properties of create followed by resyncs.                                *)
(***************************************************************************)
\* the rows the table holds for a work log of the remote
RowsOf(w) ==
  { id \in DOMAIN table :
      LET k == Len(id) - Len(w.id)
      IN k >= 1 /\ SubSeq(id, k, Len(id)) = <<":">> \o w.id }

\* C29: a work log created through the entry point is stored under the id
\* a resync derives for it, so the table holds one row for it, also after
\* resyncs.
C29_SameIdAsResync ==
  \A w \in jiraWorklogs :
    /\ RowsOf(w) \subseteq {WorklogEntryId(RemoteIssueId, w.id)}
    /\ (cr_pc = "responded" /\ cr_response.status = 200 /\ supabaseConfigured
        /\ cr_created.id = w.id) => RowsOf(w) # {}

(***************************************************************************)
(* Properties of two runs of fetchJiraWorklogs at once.                     *)
(***************************************************************************)
\* the positions in the history of the group requests of a run for an account
OwnLookups(run, accountId) ==
  { i \in DOMAIN tw_lookups :
      tw_lookups[i].run = run /\ tw_lookups[i].accountId = accountId }

\* C30: the team names a run emits for an account are those of the run's
\* own group request for it, of which there is at most one, whatever the
\* other run looked up or failed to look up in the meantime.
C30_CachePrivateToRun ==
  \A run \in Runs :
    /\ \A k \in DOMAIN tw_entries[run] :
         LET entry == tw_entries[run][k]
         IN entry.authorAccountId # "unknown-account" =>
              \E i \in OwnLookups(run, entry.authorAccountId) :
                entry.teamNames = tw_lookups[i].teams
    /\ \A accountId \in {"acc-ada", "acc-bob"} :
         Cardinality(OwnLookups(run, accountId)) <= 1

\* both runs are over; the first found the account of Ada in the group web
\* while the second, whose request came in between, failed to look it up
C30_Witness ==
  /\ tw_pc = [run \in Runs |-> "done"]
  /\ \E i, j \in DOMAIN tw_lookups :
       /\ i < j
       /\ tw_lookups[i] = [run |-> 1, accountId |-> "acc-ada", ok |-> TRUE,
                           teams |-> << <<"web">> >>]
       /\ tw_lookups[j] = [run |-> 2, accountId |-> "acc-ada", ok |-> FALSE, teams |-> <<>>]
       /\ \E k \in DOMAIN tw_lookups : k > j /\ tw_lookups[k].run = 1
  /\ \A k \in DOMAIN tw_entries[1] :
       tw_entries[1][k].authorAccountId = "acc-ada" =>
         tw_entries[1][k].teamNames = << <<"web">> >>
  /\ \A k \in DOMAIN tw_entries[2] :
       tw_entries[2][k].authorAccountId = "acc-ada" => tw_entries[2][k].teamNames = <<>>
  /\ Len(tw_entries[1]) = 4
  /\ Len(tw_entries[2]) = 4

====
